---- MODULE Spec2Model ----
(***************************************************************************)
(* chaintool: cooperative multi-process marker-file locks (lock manager),  *)
(* the item store, and the operations that acquire locks and touch the     *)
(* store.  Strings that the code parses or pattern-matches (lock paths,    *)
(* glob patterns, item names) are sequences of one-character strings.      *)
(***************************************************************************)
EXTENDS Integers, Sequences, FiniteSets, TLC

(* ------------------------------ bounds --------------------------------- *)

\* number of chaintool processes running the full set of operations
MaxProcs == 2

\* placeholder tokens in a commandline template given to define
MaxTokens == 2

\* process ids; the workload restricted to one name runs one process more
Procs == 1..(MaxProcs + 1)

(* --------------------------- character data ---------------------------- *)

Digits == <<"0", "1", "2", "3", "4", "5", "6", "7", "8", "9">>

\* code point order of the characters item names are built from
Ord(c) ==
    CASE c = "A" -> 65
      [] c = "B" -> 66
      [] c = "[" -> 91
      [] c = "]" -> 93
      [] OTHER -> 0

NameA == <<"A">>
NameB == <<"B">>
NameG == <<"[", "A", "]">>

\* item names used by the operations; all pass is_valid_name
Names == {NameA, NameB, NameG}

\* string.whitespace (the vertical tab has no TLA+ string form; no name of this
\* model holds one)
Whitespace == {" ", "\t", "\n", "\r", "\f"}

is_valid_name(name) ==
    /\ name # <<>>
    /\ \A i \in 1..Len(name) : name[i] \notin Whitespace

(* ------------------------- Python value model -------------------------- *)

PyInt(n) == [type |-> "int", v |-> <<n>>]
PyStr(s) == [type |-> "str", v |-> s]

\* Python's != : values of different types are never equal
PyNe(a, b) == a.type # b.type \/ a.v # b.v

RECURSIVE DecStr(_)
DecStr(n) == IF n < 10 THEN <<Digits[n + 1]>>
             ELSE DecStr(n \div 10) \o <<Digits[(n % 10) + 1]>>

DigitVal(c) == (CHOOSE i \in 1..10 : Digits[i] = c) - 1

RECURSIVE ParseInt(_)
ParseInt(s) == IF Len(s) = 0 THEN 0
               ELSE 10 * ParseInt(SubSeq(s, 1, Len(s) - 1)) + DigitVal(s[Len(s)])

\* str.rindex
RIndex(s, c) == CHOOSE i \in 1..Len(s) :
                    /\ s[i] = c
                    /\ \A j \in (i + 1)..Len(s) : s[j] # c

(* ------------------------------ fnmatch -------------------------------- *)

\* index of the "]" closing the character class opened at pat[i], 0 if none
RECURSIVE ScanClass(_, _)
ScanClass(pat, j) ==
    IF j > Len(pat) THEN 0
    ELSE IF pat[j] = "]" THEN j
    ELSE ScanClass(pat, j + 1)

ClassEnd(pat, i) ==
    LET j1 == IF i + 1 <= Len(pat) /\ pat[i + 1] = "!" THEN i + 2 ELSE i + 1
        j2 == IF j1 <= Len(pat) /\ pat[j1] = "]" THEN j1 + 1 ELSE j1
    IN  ScanClass(pat, j2)

InClass(pat, i, k, c) ==
    LET neg == pat[i + 1] = "!"
        lo  == IF neg THEN i + 2 ELSE i + 1
        hit == \E m \in lo..(k - 1) : pat[m] = c
    IN  IF neg THEN ~hit ELSE hit

RECURSIVE FnMatchAt(_, _, _, _)
FnMatchAt(pat, i, s, j) ==
    IF i > Len(pat) THEN j > Len(s)
    ELSE IF pat[i] = "*" THEN
        \/ FnMatchAt(pat, i + 1, s, j)
        \/ j <= Len(s) /\ FnMatchAt(pat, i, s, j + 1)
    ELSE IF pat[i] = "?" THEN
        j <= Len(s) /\ FnMatchAt(pat, i + 1, s, j + 1)
    ELSE IF pat[i] = "[" /\ ClassEnd(pat, i) # 0 THEN
        /\ j <= Len(s)
        /\ InClass(pat, i, ClassEnd(pat, i), s[j])
        /\ FnMatchAt(pat, ClassEnd(pat, i) + 1, s, j + 1)
    ELSE
        j <= Len(s) /\ s[j] = pat[i] /\ FnMatchAt(pat, i + 1, s, j + 1)

FnMatch(pat, s) == FnMatchAt(pat, 1, s, 1)

(* ---------------------------- lock paths ------------------------------- *)

\* LockType enum values
LockTypeValue(lock_type) ==
    IF lock_type = "READ" THEN <<"r", "e", "a", "d">>
    ELSE <<"w", "r", "i", "t", "e">>

\* item_type strings
ItemTypeStr(item_type) ==
    IF item_type = "cmd" THEN <<"c", "m", "d">> ELSE <<"s", "e", "q">>

\* prefix of inventory_lock / release_inventory_lock (file name part; every
\* marker lives in the one directory LOCKS_DIR)
InventoryPrefix(item_type) ==
    <<"i", "n", "v", "e", "n", "t", "o", "r", "y", "-">> \o ItemTypeStr(item_type)

\* prefix of item_lock
ItemPrefix(item_type, item_name) ==
    ItemTypeStr(item_type) \o <<"-">> \o item_name

MY_PID(p) == PyStr(DecStr(p))

\* '.'.join([prefix, lock_type.value, MY_PID])
LockPath(prefix, lock_type, p) ==
    prefix \o <<".">> \o LockTypeValue(lock_type) \o <<".">> \o MY_PID(p).v

locker_pid(lock_path) ==
    PyInt(ParseInt(SubSeq(lock_path, RIndex(lock_path, ".") + 1, Len(lock_path))))

ConflictPattern(lock_type, prefix) ==
    IF lock_type = "WRITE" THEN prefix \o <<".", "*">>
    ELSE prefix \o <<".">> \o LockTypeValue("WRITE") \o <<".", "*">>

Req(prefix, lock_type) == [prefix |-> prefix, type |-> lock_type]

InvReq(item_type, lock_type) == Req(InventoryPrefix(item_type), lock_type)
ItemReq(item_type, item_name, lock_type) ==
    Req(ItemPrefix(item_type, item_name), lock_type)

(* --------------------------- sorting names ----------------------------- *)

RECURSIVE StrLess(_, _)
StrLess(a, b) ==
    IF Len(a) = 0 THEN Len(b) > 0
    ELSE IF Len(b) = 0 THEN FALSE
    ELSE IF a[1] = b[1] THEN StrLess(Tail(a), Tail(b))
    ELSE Ord(a[1]) < Ord(b[1])

RECURSIVE Insert(_, _)
Insert(x, s) ==
    IF s = <<>> THEN <<x>>
    ELSE IF StrLess(x, s[1]) THEN <<x>> \o s
    ELSE <<s[1]>> \o Insert(x, Tail(s))

\* list.sort() on a list of names (duplicates kept)
RECURSIVE Sorted(_)
Sorted(s) == IF s = <<>> THEN <<>> ELSE Insert(s[1], Sorted(Tail(s)))

\* the item_lock calls multi_item_lock makes, in order
RECURSIVE ItemReqs(_, _, _)
ItemReqs(item_type, items, lock_type) ==
    IF items = <<>> THEN <<>>
    ELSE <<ItemReq(item_type, items[1], lock_type)>>
            \o ItemReqs(item_type, Tail(items), lock_type)

\* multi_item_lock without items.sort()
multi_item_lock_unsorted(item_type, item_name_list, lock_type) ==
    ItemReqs(item_type, item_name_list, lock_type)

multi_item_lock(item_type, item_name_list, lock_type) ==
    ItemReqs(item_type, Sorted(item_name_list), lock_type)

\* os.listdir of an item directory, as a list (a set enumerated in some order)
RECURSIVE SetToSeq(_)
SetToSeq(S) ==
    IF S = {} THEN <<>>
    ELSE LET x == CHOOSE y \in S : \A z \in S : z = y \/ StrLess(y, z)
         IN  <<x>> \o SetToSeq(S \ {x})

(* -------------------------- placeholder engine ------------------------- *)

\* A commandline, a placeholder token, a value or a run argument is a Python
\* str: here the sequence of its characters.  The commandlines of this model
\* hold no newline, quote or backslash character.

Letters ==
    {"a", "b", "c", "d", "e", "f", "g", "h", "i", "j", "k", "l", "m",
     "n", "o", "p", "q", "r", "s", "t", "u", "v", "w", "x", "y", "z",
     "A", "B", "C", "D", "E", "F", "G", "H", "I", "J", "K", "L", "M",
     "N", "O", "P", "Q", "R", "S", "T", "U", "V", "W", "X", "Y", "Z"}

\* an optional str: None, or a value
None == [some |-> FALSE, v |-> <<>>]
Some(v) == [some |-> TRUE, v |-> v]

\* a dict as a function of its keys; d[k] = v
EmptyDict == <<>>
Put(d, k, v) == [x \in DOMAIN d \cup {k} |-> IF x = k THEN v ELSE d[x]]

\* s[i:] and s[i:j] with 1-based i, j exclusive
From(s, i) == SubSeq(s, i, Len(s))
Slice(s, i, j) == SubSeq(s, i, j - 1)

\* str.find(c) from position i on: Len(s) + 1 if c does not occur
RECURSIVE Find(_, _, _)
Find(s, c, i) ==
    IF i > Len(s) THEN Len(s) + 1
    ELSE IF s[i] = c THEN i
    ELSE Find(s, c, i + 1)

\* ALPHANUM_RE = ^[a-zA-Z][a-zA-Z0-9_]*$
ALPHANUM_RE(s) ==
    /\ s # <<>>
    /\ s[1] \in Letters
    /\ \A i \in 2..Len(s) :
          s[i] \in Letters \cup {Digits[d] : d \in DOMAIN Digits} \cup {"_"}

\* PLACEHOLDER_TOGGLE_RE = ^(\+[^=]+)=([^:]*):(.*)$ : the groups of the match,
\* or matched = FALSE
PLACEHOLDER_TOGGLE_RE(s) ==
    LET eq == Find(s, "=", 1)
        colon == Find(s, ":", eq + 1)
    IN  IF s # <<>> /\ s[1] = "+" /\ eq >= 3 /\ eq <= Len(s)
           /\ colon <= Len(s)
        THEN [matched |-> TRUE, g1 |-> Slice(s, 1, eq),
              g2 |-> Slice(s, eq + 1, colon), g3 |-> From(s, colon + 1)]
        ELSE [matched |-> FALSE, g1 |-> <<>>, g2 |-> <<>>, g3 |-> <<>>]

\* the end of the longest run of (?:[^/+=]+/) segments that starts at i and
\* leaves a remainder [^+][^=]* can match; backtracks segment by segment
RECURSIVE ModifiersEnd(_, _)
ModifiersEnd(s, i) ==
    LET slash == Find(s, "/", i)
        segment == Slice(s, i, slash)
        after == IF slash <= Len(s) /\ segment # <<>>
                    /\ \A k \in 1..Len(segment) : segment[k] \notin {"+", "="}
                 THEN ModifiersEnd(s, slash + 1)
                 ELSE 0
    IN  IF after # 0 THEN after
        ELSE IF i <= Len(s) /\ s[i] # "+" THEN i
        ELSE 0

\* PLACEHOLDER_RE = ^((?:[^/+=]+/)*)([^+][^=]*)(?:=(.*))?$ : g3 is None when
\* the token has no "=" part
PLACEHOLDER_RE(s) ==
    LET start == ModifiersEnd(s, 1)
        eq == Find(s, "=", start + 1)
    IN  IF start # 0
        THEN [matched |-> TRUE, g1 |-> Slice(s, 1, start),
              g2 |-> Slice(s, start, eq),
              g3 |-> IF eq <= Len(s) THEN Some(From(s, eq + 1)) ELSE None]
        ELSE [matched |-> FALSE, g1 |-> <<>>, g2 |-> <<>>, g3 |-> None]

\* str.split("/")
RECURSIVE Split(_, _)
Split(s, c) ==
    LET at == Find(s, c, 1)
    IN  IF at > Len(s) THEN <<s>>
        ELSE <<Slice(s, 1, at)>> \o Split(From(s, at + 1), c)

\* value.replace("{{", "{").replace("}}", "}")
RECURSIVE Replace2(_, _)
Replace2(s, c) ==
    IF Len(s) < 2 THEN s
    ELSE IF s[1] = c /\ s[2] = c THEN <<c>> \o Replace2(From(s, 3), c)
    ELSE <<s[1]>> \o Replace2(From(s, 2), c)

collapse_literal_braces(value) == Replace2(Replace2(value, "{"), "}")

\* the keys of MODIFIERS_DISPATCH
MODIFIERS_DISPATCH ==
    {<<"d", "i", "r", "n", "a", "m", "e">>,
     <<"b", "a", "s", "e", "n", "a", "m", "e">>,
     <<"s", "t", "e", "m">>}

valid_modifiers(modifiers) ==
    \A i \in 1..Len(modifiers) : modifiers[i] \in MODIFIERS_DISPATCH

\* the error_sets dictionary of define
NoErrors ==
    [non_alphanum_names |-> {}, invalid_modifiers |-> {},
     multi_value_names |-> {}, multi_togglevalue_names |-> {},
     toggles_without_values |-> {}, toggle_dup_names |-> {}]

\* the containers handle_set_placeholder_wrapper captures
NoPlaceholders ==
    [values_for_names |-> EmptyDict, modifiers_for_names |-> EmptyDict,
     togglevalues_for_names |-> EmptyDict, error_sets |-> NoErrors]

\* check_toggle_errors: the error_sets after the call.  key is a str at both
\* call sites, so "key is not None" holds and the else branch is never taken
check_toggle_errors(key, value, values_for_names, togglevalues_for_names, error_sets) ==
    LET key_is_not_None == TRUE
        e1 == IF ~ALPHANUM_RE(From(key, 2))
              THEN [error_sets EXCEPT !.non_alphanum_names = @ \cup {key}]
              ELSE error_sets
        e2 == IF From(key, 2) \in DOMAIN values_for_names
              THEN [e1 EXCEPT !.toggle_dup_names = @ \cup {From(key, 2)}]
              ELSE e1
    IN  IF key_is_not_None
        THEN IF key \in DOMAIN togglevalues_for_names
             THEN IF Some(togglevalues_for_names[key]) # value
                  THEN [e2 EXCEPT !.multi_togglevalue_names = @ \cup {key}]
                  ELSE e2
             ELSE e2
        ELSE [e2 EXCEPT !.toggles_without_values = @ \cup {key}]

\* a check_placeholder_errors that accepts a second, differing default
check_placeholder_errors_any_default(key, modifiers, value, values_for_names, togglevalues_for_names, error_sets) ==
    IF key[1] = "+"
    THEN check_toggle_errors(key, value, values_for_names,
                             togglevalues_for_names, error_sets)
    ELSE LET e1 == IF ~ALPHANUM_RE(key)
                   THEN [error_sets EXCEPT !.non_alphanum_names = @ \cup {key}]
                   ELSE error_sets
             e2 == IF ~valid_modifiers(modifiers)
                   THEN [e1 EXCEPT !.invalid_modifiers = @ \cup {key}]
                   ELSE e1
         IN  IF (<<"+">> \o key) \in DOMAIN togglevalues_for_names
             THEN [e2 EXCEPT !.toggle_dup_names = @ \cup {key}]
             ELSE e2

\* check_placeholder_errors: the error_sets after the call
check_placeholder_errors(key, modifiers, value, values_for_names, togglevalues_for_names, error_sets) ==
    IF key[1] = "+"
    THEN check_toggle_errors(key, value, values_for_names,
                             togglevalues_for_names, error_sets)
    ELSE LET e1 == IF ~ALPHANUM_RE(key)
                   THEN [error_sets EXCEPT !.non_alphanum_names = @ \cup {key}]
                   ELSE error_sets
             e2 == IF ~valid_modifiers(modifiers)
                   THEN [e1 EXCEPT !.invalid_modifiers = @ \cup {key}]
                   ELSE e1
             e3 == IF (<<"+">> \o key) \in DOMAIN togglevalues_for_names
                   THEN [e2 EXCEPT !.toggle_dup_names = @ \cup {key}]
                   ELSE e2
         IN  IF key \in DOMAIN values_for_names
                /\ values_for_names[key] # value
             THEN [e3 EXCEPT !.multi_value_names = @ \cup {key}]
             ELSE e3

\* handle_set_placeholder: the containers after the call (c) and the text
\* returned for the format string
handle_set_placeholder(placeholder, c) ==
    LET set_toggle(key, value) ==
            [c |-> [c EXCEPT
                 !.error_sets = check_toggle_errors(
                     key, Some(value), c.values_for_names,
                     c.togglevalues_for_names, c.error_sets),
                 !.togglevalues_for_names = Put(@, key, value)],
             text |-> key]
        set_value(modifiers_prefix, key, value, modifiers) ==
            [c |-> [c EXCEPT
                 !.error_sets = check_placeholder_errors(
                     key, modifiers, value, c.values_for_names,
                     c.togglevalues_for_names, c.error_sets),
                 !.values_for_names = Put(@, key, value),
                 !.modifiers_for_names =
                     IF modifiers = <<>> THEN @
                     ELSE IF key \in DOMAIN @
                          THEN Put(@, key, Append(@[key], modifiers))
                          ELSE Put(@, key, <<modifiers>>)],
             text |-> modifiers_prefix \o key]
        split(modifiers_prefix, key, value, parts) ==
            set_value(modifiers_prefix, key, value,
                      SubSeq(parts, 1, Len(parts) - 1))
        matched(toggle_match, nontoggle_match) ==
            IF toggle_match.matched
            THEN set_toggle(toggle_match.g1,
                            <<collapse_literal_braces(toggle_match.g2),
                              collapse_literal_braces(toggle_match.g3)>>)
            ELSE IF nontoggle_match.matched
                 THEN split(nontoggle_match.g1, nontoggle_match.g2,
                            IF nontoggle_match.g3.some
                            THEN Some(collapse_literal_braces(
                                          nontoggle_match.g3.v))
                            ELSE None,
                            Split(nontoggle_match.g1, "/"))
                 ELSE split(<<>>, placeholder, None, Split(<<>>, "/"))
    IN  matched(PLACEHOLDER_TOGGLE_RE(placeholder), PLACEHOLDER_RE(placeholder))

\* process_cmdline with handle_set_placeholder_wrapper, from character i on:
\* the loop's variables and the containers
RECURSIVE process_cmdline_from(_, _, _)
process_cmdline_from(cmdline, i, s) ==
    IF i > Len(cmdline) THEN s
    ELSE LET char == cmdline[i]
             char_is_brace == char \in {"{", "}"}
             closed(handled) ==
                 [s EXCEPT !.cmdline_format = @ \o handled.text \o <<char>>,
                           !.c = handled.c,
                           !.placeholder = <<>>]
             s1 == IF s.placeholder = <<>>
                   THEN IF s.prev_undoubled_brace = "{" /\ ~char_is_brace
                        THEN [s EXCEPT !.placeholder = <<char>>]
                        ELSE [s EXCEPT !.cmdline_format = @ \o <<char>>]
                   ELSE IF char = "}" /\ s.prev_undoubled_brace # "}"
                        THEN closed(handle_set_placeholder(s.placeholder, s.c))
                        ELSE [s EXCEPT !.placeholder = @ \o <<char>>]
             s2 == [s1 EXCEPT !.prev_undoubled_brace =
                       IF char = @ THEN ""
                       ELSE IF char_is_brace THEN char
                       ELSE @]
         IN  process_cmdline_from(cmdline, i + 1, s2)

\* process_cmdline(cmdline, handle_set_placeholder_wrapper): the format string
\* and the containers the wrapper has filled
process_cmdline(cmdline) ==
    process_cmdline_from(cmdline, 1,
        [placeholder |-> <<>>, cmdline_format |-> <<>>,
         prev_undoubled_brace |-> "", c |-> NoPlaceholders])

\* print_errors: whether any error set is non-empty
print_errors(error_sets) ==
    \/ error_sets.non_alphanum_names # {}
    \/ error_sets.invalid_modifiers # {}
    \/ error_sets.multi_value_names # {}
    \/ error_sets.multi_togglevalue_names # {}
    \/ error_sets.toggles_without_values # {}
    \/ error_sets.toggle_dup_names # {}

\* str.rfind(c): 0 if c does not occur
RECURSIVE RFind(_, _, _)
RFind(s, c, i) ==
    IF i = 0 THEN 0
    ELSE IF s[i] = c THEN i
    ELSE RFind(s, c, i - 1)

\* str.rstrip(c)
RECURSIVE RStrip(_, _)
RStrip(s, c) ==
    IF s # <<>> /\ s[Len(s)] = c THEN RStrip(SubSeq(s, 1, Len(s) - 1), c)
    ELSE s

\* os.path.dirname, os.path.basename (posixpath) and stem_modifier
dirname(path) ==
    LET head == SubSeq(path, 1, RFind(path, "/", Len(path)))
    IN  IF \E k \in 1..Len(head) : head[k] # "/" THEN RStrip(head, "/")
        ELSE head

basename(path) == From(path, RFind(path, "/", Len(path)) + 1)

stem_modifier(filepath) ==
    LET dotpos == RFind(filepath, ".", Len(filepath))
        slashpos == RFind(filepath, "/", Len(filepath))
    IN  IF dotpos = 0 THEN filepath
        ELSE IF slashpos > dotpos THEN filepath
        ELSE SubSeq(filepath, 1, dotpos - 1)

\* MODIFIERS_DISPATCH[modifier](value)
ApplyModifier(modifier, value) ==
    IF modifier = <<"d", "i", "r", "n", "a", "m", "e">> THEN dirname(value)
    ELSE IF modifier = <<"s", "t", "e", "m">> THEN stem_modifier(value)
    ELSE basename(value)

\* "/".join(modlist) + "/"
RECURSIVE ModifiersPrefix(_)
ModifiersPrefix(modlist) ==
    IF modlist = <<>> THEN <<>>
    ELSE Head(modlist) \o <<"/">> \o ModifiersPrefix(Tail(modlist))

\* the modifiers applied in the order of the list
RECURSIVE ApplyModifiers_left_to_right(_, _)
ApplyModifiers_left_to_right(modlist, value) ==
    IF modlist = <<>> THEN value
    ELSE ApplyModifiers_left_to_right(Tail(modlist),
                                      ApplyModifier(Head(modlist), value))

\* for modifier in reversed(modlist): mod_value = ...(mod_value)
RECURSIVE ApplyModifiers(_, _)
ApplyModifiers(modlist, value) ==
    IF modlist = <<>> THEN value
    ELSE ApplyModifier(Head(modlist), ApplyModifiers(Tail(modlist), value))

\* populated_modified_values: one (name, modlist) pair at a time; the order
\* does not matter, every pair writes its own key
RECURSIVE populated_modified_values(_, _)
populated_modified_values(values_for_names, pairs) ==
    IF pairs = {} THEN values_for_names
    ELSE LET pair == CHOOSE x \in pairs : TRUE
             name == pair[1]
             modlist == pair[2]
             values ==
                 IF name \in DOMAIN values_for_names
                 THEN Put(values_for_names, ModifiersPrefix(modlist) \o name,
                          Some(ApplyModifiers(modlist,
                                              values_for_names[name].v)))
                 ELSE values_for_names
         IN  populated_modified_values(values, pairs \ {pair})

\* update_runtime_values_from_args, the loop over all_args from the i-th on:
\* ok = FALSE when it returns False; unactivated = unactivated_toggles
RECURSIVE runtime_values_from(_, _, _, _, _)
runtime_values_from(all_args, i, values_for_names, valid_non_toggles, togglevalues_for_names) ==
    IF i > Len(all_args) THEN [ok |-> TRUE, values |-> values_for_names]
    ELSE LET arg == all_args[i]
             rest(values) ==
                 runtime_values_from(all_args, i + 1, values,
                                     valid_non_toggles, togglevalues_for_names)
             failed == [ok |-> FALSE, values |-> values_for_names]
             non_toggle(nontoggle_match) ==
                 IF ~nontoggle_match.matched THEN rest(values_for_names)
                 ELSE IF nontoggle_match.g1 # <<>> THEN failed
                 ELSE IF ~nontoggle_match.g3.some THEN failed
                 ELSE IF nontoggle_match.g2 \in valid_non_toggles
                      THEN rest(Put(values_for_names, nontoggle_match.g2,
                                    nontoggle_match.g3))
                      ELSE rest(values_for_names)
         IN  IF PLACEHOLDER_TOGGLE_RE(arg).matched THEN failed
             ELSE IF arg[1] = "+"
                  THEN IF arg \in DOMAIN togglevalues_for_names
                       THEN rest(Put(values_for_names, arg,
                                     Some(togglevalues_for_names[arg][2])))
                       ELSE rest(values_for_names)
             ELSE non_toggle(PLACEHOLDER_RE(arg))

\* the same without the check for placeholders left without a value
update_runtime_values_from_args_unchecked(values_for_names, modifiers_for_names, togglevalues_for_names, all_args) ==
    LET activated == {all_args[i] : i \in 1..Len(all_args)}
        pairs == UNION {{<<name, modifiers_for_names[name][j]>> :
                            j \in 1..Len(modifiers_for_names[name])} :
                        name \in DOMAIN modifiers_for_names}
        populated(toggled) ==
            IF FALSE
            THEN [ok |-> FALSE, values |-> EmptyDict]
            ELSE [ok |-> TRUE,
                  values |-> populated_modified_values(toggled, pairs)]
        \* the toggles no arg activated get their "off" value
        updated(looped) ==
            IF ~looped.ok THEN [ok |-> FALSE, values |-> EmptyDict]
            ELSE populated(
                     [k \in DOMAIN looped.values
                             \cup (DOMAIN togglevalues_for_names \ activated) |->
                        IF k \in DOMAIN togglevalues_for_names \ activated
                        THEN Some(togglevalues_for_names[k][1])
                        ELSE looped.values[k]])
    IN  updated(runtime_values_from(all_args, 1, values_for_names,
                                    DOMAIN values_for_names,
                                    togglevalues_for_names))

\* the same with every unactivated toggle given its "on" value
update_runtime_values_from_args_toggles_on(values_for_names, modifiers_for_names, togglevalues_for_names, all_args) ==
    LET activated == {all_args[i] : i \in 1..Len(all_args)}
        pairs == UNION {{<<name, modifiers_for_names[name][j]>> :
                            j \in 1..Len(modifiers_for_names[name])} :
                        name \in DOMAIN modifiers_for_names}
        populated(toggled) ==
            IF \E k \in DOMAIN values_for_names : ~toggled[k].some
            THEN [ok |-> FALSE, values |-> EmptyDict]
            ELSE [ok |-> TRUE,
                  values |-> populated_modified_values(toggled, pairs)]
        \* the toggles no arg activated get their "off" value
        updated(looped) ==
            IF ~looped.ok THEN [ok |-> FALSE, values |-> EmptyDict]
            ELSE populated(
                     [k \in DOMAIN looped.values
                             \cup (DOMAIN togglevalues_for_names \ activated) |->
                        IF k \in DOMAIN togglevalues_for_names \ activated
                        THEN Some(togglevalues_for_names[k][2])
                        ELSE looped.values[k]])
    IN  updated(runtime_values_from(all_args, 1, values_for_names,
                                    DOMAIN values_for_names,
                                    togglevalues_for_names))

\* update_runtime_values_from_args(values_for_names, modifiers_for_names,
\* togglevalues_for_names, all_args, unused_args): the values to substitute,
\* or ok = FALSE.  unused_args only feeds a warning and is left out
update_runtime_values_from_args(values_for_names, modifiers_for_names, togglevalues_for_names, all_args) ==
    LET activated == {all_args[i] : i \in 1..Len(all_args)}
        pairs == UNION {{<<name, modifiers_for_names[name][j]>> :
                            j \in 1..Len(modifiers_for_names[name])} :
                        name \in DOMAIN modifiers_for_names}
        populated(toggled) ==
            IF \E k \in DOMAIN values_for_names : ~toggled[k].some
            THEN [ok |-> FALSE, values |-> EmptyDict]
            ELSE [ok |-> TRUE,
                  values |-> populated_modified_values(toggled, pairs)]
        \* the toggles no arg activated get their "off" value
        updated(looped) ==
            IF ~looped.ok THEN [ok |-> FALSE, values |-> EmptyDict]
            ELSE populated(
                     [k \in DOMAIN looped.values
                             \cup (DOMAIN togglevalues_for_names \ activated) |->
                        IF k \in DOMAIN togglevalues_for_names \ activated
                        THEN Some(togglevalues_for_names[k][1])
                        ELSE looped.values[k]])
    IN  updated(runtime_values_from(all_args, 1, values_for_names,
                                    DOMAIN values_for_names,
                                    togglevalues_for_names))

\* value.replace("{", "{{").replace("}", "}}")
RECURSIVE explode_literal_braces(_)
explode_literal_braces(value) ==
    IF value = <<>> THEN <<>>
    ELSE (IF value[1] \in {"{", "}"} THEN <<value[1], value[1]>>
          ELSE <<value[1]>>) \o explode_literal_braces(Tail(value))

\* update_default_values_from_args, the loop over all_args from the i-th on:
\* ok = FALSE when it returns False.  unused_args only feeds a warning and is
\* left out
RECURSIVE default_values_from(_, _, _, _, _)
default_values_from(all_args, i, values_for_names, valid_non_toggles, togglevalues_for_names) ==
    IF i > Len(all_args)
    THEN [ok |-> TRUE, values |-> values_for_names,
          togglevalues |-> togglevalues_for_names]
    ELSE LET arg == all_args[i]
             rest(values, togglevalues) ==
                 default_values_from(all_args, i + 1, values,
                                     valid_non_toggles, togglevalues)
             failed == [ok |-> FALSE, values |-> values_for_names,
                        togglevalues |-> togglevalues_for_names]
             non_toggle(nontoggle_match) ==
                 IF ~nontoggle_match.matched
                 THEN rest(values_for_names, togglevalues_for_names)
                 ELSE IF nontoggle_match.g1 # <<>> THEN failed
                 ELSE IF nontoggle_match.g2 \in valid_non_toggles
                      THEN rest(Put(values_for_names, nontoggle_match.g2,
                                    nontoggle_match.g3),
                                togglevalues_for_names)
                      ELSE rest(values_for_names, togglevalues_for_names)
             toggle(toggle_match) ==
                 IF toggle_match.matched
                 THEN IF toggle_match.g1 \in DOMAIN togglevalues_for_names
                      THEN rest(values_for_names,
                                Put(togglevalues_for_names, toggle_match.g1,
                                    <<toggle_match.g2, toggle_match.g3>>))
                      ELSE rest(values_for_names, togglevalues_for_names)
                 ELSE IF arg[1] = "+" THEN failed
                 ELSE non_toggle(PLACEHOLDER_RE(arg))
         IN  toggle(PLACEHOLDER_TOGGLE_RE(arg))

update_default_values_from_args(values_for_names, togglevalues_for_names, all_args) ==
    default_values_from(all_args, 1, values_for_names,
                        DOMAIN values_for_names, togglevalues_for_names)

\* handle_update_placeholder: the updated token for the commandline
handle_update_placeholder(placeholder, args_dict, toggle_args_dict) ==
    LET updated(modifiers_prefix, key) ==
            IF key \notin DOMAIN args_dict THEN placeholder
            ELSE IF ~args_dict[key].some THEN modifiers_prefix \o key
            ELSE modifiers_prefix \o key \o <<"=">>
                 \o explode_literal_braces(args_dict[key].v)
        matched(toggle_match, nontoggle_match) ==
            IF toggle_match.matched
            THEN IF toggle_match.g1 \notin DOMAIN toggle_args_dict
                 THEN placeholder
                 ELSE toggle_match.g1 \o <<"=">>
                      \o explode_literal_braces(
                             toggle_args_dict[toggle_match.g1][1])
                      \o <<":">>
                      \o explode_literal_braces(
                             toggle_args_dict[toggle_match.g1][2])
            ELSE IF nontoggle_match.matched
                 THEN updated(nontoggle_match.g1, nontoggle_match.g2)
                 ELSE updated(<<>>, placeholder)
    IN  matched(PLACEHOLDER_TOGGLE_RE(placeholder), PLACEHOLDER_RE(placeholder))

\* process_cmdline with handle_update_placeholder_wrapper, from character i
\* on: the loop's variables
RECURSIVE update_cmdline_from(_, _, _, _, _)
update_cmdline_from(cmdline, i, s, args_dict, toggle_args_dict) ==
    IF i > Len(cmdline) THEN s
    ELSE LET char == cmdline[i]
             char_is_brace == char \in {"{", "}"}
             closed(text) ==
                 [s EXCEPT !.cmdline_format = @ \o text \o <<char>>,
                           !.placeholder = <<>>]
             s1 == IF s.placeholder = <<>>
                   THEN IF s.prev_undoubled_brace = "{" /\ ~char_is_brace
                        THEN [s EXCEPT !.placeholder = <<char>>]
                        ELSE [s EXCEPT !.cmdline_format = @ \o <<char>>]
                   ELSE IF char = "}" /\ s.prev_undoubled_brace # "}"
                        THEN closed(handle_update_placeholder(
                                        s.placeholder, args_dict,
                                        toggle_args_dict))
                        ELSE [s EXCEPT !.placeholder = @ \o <<char>>]
             s2 == [s1 EXCEPT !.prev_undoubled_brace =
                       IF char = @ THEN ""
                       ELSE IF char_is_brace THEN char
                       ELSE @]
         IN  update_cmdline_from(cmdline, i + 1, s2, args_dict,
                                 toggle_args_dict)

\* update_cmdline(cmd_dict): the cmd_dict with its "cmdline" regenerated
update_cmdline(cmd_dict) ==
    [cmd_dict EXCEPT !.cmdline =
         update_cmdline_from(
             cmd_dict.cmdline, 1,
             [placeholder |-> <<>>, cmdline_format |-> <<>>,
              prev_undoubled_brace |-> ""],
             cmd_dict.args, cmd_dict.toggle_args).cmdline_format]

\* str.format(**values) from the i-th character of the format string on;
\* ok = FALSE when it raises (a single brace, or a field that is no key)
RECURSIVE Format(_, _, _)
Format(fmt, i, values) ==
    LET doubled == i < Len(fmt) /\ fmt[i + 1] = fmt[i]
        close == Find(fmt, "}", i + 1)
        key == Slice(fmt, i + 1, close)
        raised == [ok |-> FALSE, text |-> <<>>]
        then(text, j) ==
            LET rest == Format(fmt, j, values)
            IN  IF rest.ok THEN [ok |-> TRUE, text |-> text \o rest.text]
                ELSE raised
    IN  IF i > Len(fmt) THEN [ok |-> TRUE, text |-> <<>>]
        ELSE IF fmt[i] \in {"{", "}"} /\ doubled THEN then(<<fmt[i]>>, i + 2)
        ELSE IF fmt[i] = "}" THEN raised
        ELSE IF fmt[i] = "{"
             THEN IF close > Len(fmt) \/ key \notin DOMAIN values THEN raised
                  ELSE then(IF values[key].some THEN values[key].v
                            ELSE <<"N", "o", "n", "e">>, close + 1)
        ELSE then(<<fmt[i]>>, i + 1)

\* shlex.split of a commandline without quotes or escapes: its words
RECURSIVE Words(_)
Words(s) ==
    IF s = <<>> THEN <<>>
    ELSE IF s[1] \in Whitespace THEN Words(Tail(s))
    ELSE LET stops == {k \in 1..Len(s) : s[k] \in Whitespace}
             end == IF stops = {} THEN Len(s) + 1
                    ELSE CHOOSE k \in stops : \A j \in stops : k <= j
         IN  <<Slice(s, 1, end)>> \o Words(From(s, end))

\* ENV_OP_RE = ^([a-zA-Z][a-zA-Z0-9_]*)=(.*)$ in env_op_parse: the
\* (dst_name, src_value) pair, or None
env_op_parse(env_op) ==
    LET eq == Find(env_op, "=", 1)
    IN  IF eq <= Len(env_op) /\ ALPHANUM_RE(Slice(env_op, 1, eq))
        THEN Some(<<Slice(env_op, 1, eq), From(env_op, eq + 1)>>)
        ELSE None

\* an envtool loop that appends every assignment, set before or not
RECURSIVE envtool_from_overriding(_, _, _)
envtool_from_overriding(env_args, i, run_args) ==
    IF i > Len(env_args) THEN run_args
    ELSE LET env_op == env_op_parse(env_args[i]).v
         IN  envtool_from_overriding(
                 env_args, i + 1,
                 Append(run_args, env_op[1] \o <<"=">> \o env_op[2]))

\* envtool's loop over the ops from the i-th on: the run_args after it
RECURSIVE envtool_from(_, _, _)
envtool_from(env_args, i, run_args) ==
    IF i > Len(env_args) THEN run_args
    ELSE LET env_op == env_op_parse(env_args[i]).v
             dst_name == env_op[1]
             src_value == env_op[2]
             dst_currently_set ==
                 \E k \in 1..Len(run_args) :
                    /\ run_args[k][1] # "+"
                    /\ Slice(run_args[k], 1, Find(run_args[k], "=", 1))
                          = dst_name
         IN  envtool_from(env_args, i + 1,
                 IF dst_currently_set THEN run_args
                 ELSE Append(run_args, dst_name \o <<"=">> \o src_value))

\* an envtool whose assignments stay in its own copy of run_args
envtool_on_copy(env_args, run_args) ==
    IF \E i \in 1..Len(env_args) : ~env_op_parse(env_args[i]).some
    THEN [statuses |-> {1}, run_args |-> run_args]
    ELSE [statuses |-> {0}, run_args |-> run_args]

\* envtool(env_args, run_args): the status and the run_args after the call
envtool(env_args, run_args) ==
    IF \E i \in 1..Len(env_args) : ~env_op_parse(env_args[i]).some
    THEN [statuses |-> {1}, run_args |-> run_args]
    ELSE [statuses |-> {0}, run_args |-> envtool_from(env_args, 1, run_args)]

\* copytool / deltool: 1 on a wrong argument count, else what the file
\* operation gives
filetool(tool_args, count, run_args) ==
    [statuses |-> IF Len(tool_args) # count THEN {1} ELSE {0, 1},
     run_args |-> run_args]

VtoolCopy == <<"c", "h", "a", "i", "n", "t", "o", "o", "l", "-",
               "c", "o", "p", "y">>
VtoolDel == <<"c", "h", "a", "i", "n", "t", "o", "o", "l", "-", "d", "e", "l">>
VtoolEnv == <<"c", "h", "a", "i", "n", "t", "o", "o", "l", "-", "e", "n", "v">>

\* virtual_tools.dispatch(cmdline, run_args): vtool = FALSE for None; raised
\* when the commandline has no word (tokens[0])
dispatch(cmdline, run_args) ==
    LET tokens == Words(cmdline)
        none == [raised |-> FALSE, vtool |-> FALSE, statuses |-> {},
                 run_args |-> run_args]
        called(r) == [raised |-> FALSE, vtool |-> TRUE,
                      statuses |-> r.statuses, run_args |-> r.run_args]
    IN  IF tokens = <<>> THEN [none EXCEPT !.raised = TRUE]
        ELSE IF tokens[1] = VtoolCopy
             THEN called(filetool(Tail(tokens), 2, run_args))
        ELSE IF tokens[1] = VtoolDel
             THEN called(filetool(Tail(tokens), 1, run_args))
        ELSE IF tokens[1] = VtoolEnv
             THEN called(envtool(Tail(tokens), run_args))
        ELSE none

(* ------------------------------- state --------------------------------- *)

VARIABLES
    files,       \* marker files in LOCKS_DIR (file names)
    cmdStore,    \* command documents by name
    seqStore,    \* sequence documents by name
    st,          \* process: "idle" (not started), "run", "exited", "killed"
    op,          \* the operation the process was invoked for
    pc,          \* position in the operation's handler
    want,        \* lock_internal calls the handler is making, in order
    first_try,   \* lock_internal's first_try
    waiting,     \* times lock_internal has printed "waiting..." and slept
    registered,  \* lock paths given to atexit.register(remove_lock, ...)
    cleanup,     \* name whose temp item the registered cleanup function deletes
    loc,         \* the handler's local variables
    rc,          \* exit status of the operation (-1 while running)
    out,         \* what the process has printed about its define calls
    made,        \* the process has created a marker file
    markers,     \* the version marker files of CONFIG_DIR: their text
    meta,        \* pid of the process inside "with META_LOCK" of init_modules
    inited       \* the modules whose init(...) init_modules has called

vars == <<files, cmdStore, seqStore, st, op, pc, want, first_try, waiting,
          registered, cleanup, loc, rc, out, made, markers, meta, inited>>

\* what only init_modules changes
initVars == <<markers, meta, inited>>

storeVars == <<cmdStore, seqStore>>

\* what only lock_internal changes
lockVars == <<first_try, waiting, made>>

\* what the handlers' own steps leave alone
tryVars == <<lockVars, initVars>>

NoName == <<>>

AbsentCmd ==
    [present |-> FALSE, cmdline |-> <<>>, format |-> <<>>, args |-> EmptyDict,
     args_modifiers |-> EmptyDict, toggle_args |-> EmptyDict]
\* the cmd_dict define builds from a commandline; for the empty commandline,
\* the document create_temp writes
CmdDict(cmdline, r) ==
    [present |-> TRUE, cmdline |-> cmdline, format |-> r.cmdline_format,
     args |-> r.c.values_for_names,
     args_modifiers |-> r.c.modifiers_for_names,
     toggle_args |-> r.c.togglevalues_for_names]

CmdDoc(cmdline) == CmdDict(cmdline, process_cmdline(cmdline))
AbsentSeq == [present |-> FALSE, commands |-> <<>>]
SeqDoc(cmd_list) == [present |-> TRUE, commands |-> cmd_list]

\* commandlines given to set / edit / import: empty, and two accepted templates
Cmdlines == {<<>>, <<"v">>, <<"w">>}

\* command lists given to seq set / edit / import
CmdLists == {<<>>, <<NameA>>, <<NameB>>}

\* name lists given to del
DelLists == {<<NameA>>, <<NameG>>, <<NameB, NameA>>}

\* psutil.pids()
current_pids == {PyInt(p) : p \in {q \in Procs : st[q] = "run"}}

exists(store, name) == store[name].present

all_names(store) == SetToSeq({n \in Names : store[n].present})

(* ---------------------------- lock manager ----------------------------- *)

remove_lock(fs, lock_path) == fs \ {lock_path}

remove_dead_locks(fs, lock_paths) ==
    fs \ {path \in lock_paths : locker_pid(path) \notin current_pids}

glob(pattern) == {f \in files : FnMatch(pattern, f)}

\* the notices counted in the model during one lock_internal call
MaxNotices == 2

\* the end of a pass that found conflicting locks: the notice and the sleep
\* unless this was the first try
Notices(printed, first) ==
    IF first \/ printed = MaxNotices THEN printed ELSE printed + 1

\* the markers one pass of lock_internal treats as conflicting
ConflictingLocks(p, lock_type, prefix) ==
    {l \in glob(ConflictPattern(lock_type, prefix)) : PyNe(locker_pid(l), MY_PID(p))}

\* LockPass without the atexit.register(remove_lock, lock_path)
LockPass_unregistered(p) ==
    /\ st[p] = "run"
    /\ want[p] # <<>>
    /\ LET req == Head(want[p])
           conflicting_locks == ConflictingLocks(p, req.type, req.prefix)
           lock_path == LockPath(req.prefix, req.type, p)
       IN  IF conflicting_locks = {}
           THEN /\ UNCHANGED registered
                /\ files' = files \cup {lock_path}
                /\ want' = [want EXCEPT ![p] = Tail(@)]
                /\ first_try' = [first_try EXCEPT ![p] = TRUE]
                /\ waiting' = [waiting EXCEPT ![p] = 0]
                /\ made' = [made EXCEPT ![p] = TRUE]
           ELSE /\ files' = remove_dead_locks(files, conflicting_locks)
                /\ waiting' = [waiting EXCEPT ![p] = Notices(@, first_try[p])]
                /\ first_try' = [first_try EXCEPT ![p] = FALSE]
                /\ UNCHANGED <<registered, want, made>>
    /\ UNCHANGED <<storeVars, st, op, pc, cleanup, loc, rc, out, initVars>>

\* one pass of lock_internal's loop, under META_LOCK, for the call at the head
\* of want[p]
LockPass(p) ==
    /\ st[p] = "run"
    /\ want[p] # <<>>
    /\ LET req == Head(want[p])
           conflicting_locks == ConflictingLocks(p, req.type, req.prefix)
           lock_path == LockPath(req.prefix, req.type, p)
       IN  IF conflicting_locks = {}
           THEN /\ registered' = [registered EXCEPT ![p] = @ \cup {lock_path}]
                /\ files' = files \cup {lock_path}
                /\ want' = [want EXCEPT ![p] = Tail(@)]
                /\ first_try' = [first_try EXCEPT ![p] = TRUE]
                /\ waiting' = [waiting EXCEPT ![p] = 0]
                /\ made' = [made EXCEPT ![p] = TRUE]
           ELSE /\ files' = remove_dead_locks(files, conflicting_locks)
                /\ waiting' = [waiting EXCEPT ![p] = Notices(@, first_try[p])]
                /\ first_try' = [first_try EXCEPT ![p] = FALSE]
                /\ UNCHANGED <<registered, want, made>>
    /\ UNCHANGED <<storeVars, st, op, pc, cleanup, loc, rc, out, initVars>>

release_inventory_lock(fs, item_type, lock_type, p) ==
    remove_lock(fs, LockPath(InventoryPrefix(item_type), lock_type, p))

\* the handler of p is at label l and is not inside a lock_internal call
At(p, l) == st[p] = "run" /\ pc[p] = l /\ want[p] = <<>>

Goto(p, l) == pc' = [pc EXCEPT ![p] = l]

Return(p, status) ==
    /\ pc' = [pc EXCEPT ![p] = "done"]
    /\ rc' = [rc EXCEPT ![p] = status]

Lock(p, reqs) == want' = [want EXCEPT ![p] = reqs]

\* an invocation: the operation, its item name or name list, its flag
\* (overwrite / ignore / ignore_errors) and, for a run, its placeholder args;
\* the list of a seq run is skip_cmdnames
RunOper(oper, name, list, flag, args) ==
    [oper |-> oper, name |-> name, list |-> list, flag |-> flag,
     args |-> args]
Oper(oper, name, list, flag) == RunOper(oper, name, list, flag, <<>>)
NoOp == Oper("none", NoName, <<>>, FALSE)

\* the last command_impl.define call of a handler: the commandline given, the
\* status returned (-1: no call yet) and the error sets print_errors reported
NoDefine == [cmdline |-> <<>>, status |-> -1, errors |-> NoErrors]
Defined(cmdline, r) ==
    [cmdline |-> cmdline, status |-> r.status, errors |-> r.errors]

\* handler locals: the loop's remaining items (todo), error flag, the document
\* a vals call read (cur), the command list handed to define or read by a
\* run (cmds), the import file's remaining entries, the args list of a run and
\* the command_impl.run calls made so far (ran)
NoLocals ==
    [todo |-> <<>>, err |-> FALSE, cur |-> AbsentCmd,
     cmds |-> <<>>, icmds |-> <<>>, iseqs |-> <<>>, ischema |-> 0,
     defined |-> NoDefine,
     args |-> <<>>, ran |-> <<>>]

\* the items define reported on: "... set." after a create-only write
\* (created), or FileExistsError caught and "... already exists; not modified"
\* (existed); and the items a del or a vals reported with "... does not
\* exist." (missing)
NoOutput == [created |-> {}, existed |-> {}, missing |-> {}]

\* FileNotFoundError caught and "... does not exist." printed
NotFound(o, item_type, name) ==
    [o EXCEPT !.missing = @ \cup {<<item_type, name>>}]

SetLoc(p, l) == loc' = [loc EXCEPT ![p] = l]

(* ----------------------------- item store ------------------------------ *)

\* a write that opens the file with "w" whatever the mode
write_item_truncating(store, item_name, item_doc, mode) ==
    [raised |-> FALSE, store |-> [store EXCEPT ![item_name] = item_doc]]

\* a write that opens the file with "x" whatever the mode
write_item_exclusive(store, item_name, item_doc, mode) ==
    IF store[item_name].present
    THEN [raised |-> TRUE, store |-> store]
    ELSE [raised |-> FALSE, store |-> [store EXCEPT ![item_name] = item_doc]]

\* write_item / write_dict: open(path, mode) and write; mode "x" raises
\* FileExistsError when the file exists
write_item(store, item_name, item_doc, mode) ==
    IF mode = "x" /\ store[item_name].present
    THEN [raised |-> TRUE, store |-> store]
    ELSE [raised |-> FALSE, store |-> [store EXCEPT ![item_name] = item_doc]]

\* delete_item / delete: os.remove; raised = FileNotFoundError propagated
delete_item(store, item_name, absent_doc, is_not_found_ok) ==
    IF store[item_name].present
    THEN [raised |-> FALSE, store |-> [store EXCEPT ![item_name] = absent_doc]]
    ELSE [raised |-> ~is_not_found_ok, store |-> store]

Failed(store) ==
    [status |-> 1, store |-> store, raised |-> FALSE, errors |-> NoErrors]

\* what a define call prints about its write
Outcome(o, item_type, name, r, overwrite) ==
    IF r.status # 0 THEN o
    ELSE IF r.raised THEN [o EXCEPT !.existed = @ \cup {<<item_type, name>>}]
    ELSE IF overwrite THEN o
    ELSE [o EXCEPT !.created = @ \cup {<<item_type, name>>}]

Say(p, o) == out' = [out EXCEPT ![p] = o]

\* command_impl.define
define(store, cmd, cmdline, overwrite) ==
    IF ~is_valid_name(cmd) THEN Failed(store)
    ELSE IF cmdline = <<>> THEN Failed(store)
    ELSE LET written(w) ==
                 [status |-> 0, store |-> w.store, raised |-> w.raised,
                  errors |-> NoErrors]
             processed(r) ==
                 IF print_errors(r.c.error_sets)
                 THEN [Failed(store) EXCEPT !.errors = r.c.error_sets]
                 ELSE written(write_item(store, cmd, CmdDict(cmdline, r),
                                         IF overwrite THEN "w" ELSE "x"))
         IN  processed(process_cmdline(cmdline))

\* sequence_impl_op.define
seq_define(store, seq, cmds, undefined_cmds, overwrite) ==
    IF ~is_valid_name(seq) THEN Failed(store)
    ELSE IF cmds = <<>> THEN Failed(store)
    ELSE IF \E i \in 1..Len(cmds) : ~is_valid_name(cmds[i])
         THEN Failed(store)
    ELSE IF undefined_cmds THEN Failed(store)
    ELSE LET w == write_item(store, seq, SeqDoc(cmds),
                             IF overwrite THEN "w" ELSE "x")
         IN  [status |-> 0, store |-> w.store, raised |-> w.raised,
              errors |-> NoErrors]

Range(s) == {s[i] : i \in 1..Len(s)}

(* ------------------------- command operations -------------------------- *)

\* command.cli_set: after the three lock calls
CmdSetExists(p) ==
    /\ At(p, "cset_exists")
    /\ IF exists(cmdStore, op[p].name)
       THEN /\ files' = release_inventory_lock(files, "seq", "READ", p)
            /\ Goto(p, "cset_define")
       ELSE /\ Goto(p, "cset_seqchk")
            /\ UNCHANGED files
    /\ UNCHANGED <<storeVars, st, op, want, registered, cleanup, loc, rc,
                   out, tryVars>>

CmdSetSeqChk(p) ==
    /\ At(p, "cset_seqchk")
    /\ IF exists(seqStore, op[p].name)
       THEN Return(p, 1)
       ELSE Goto(p, "cset_define") /\ UNCHANGED rc
    /\ UNCHANGED <<files, storeVars, st, op, want, registered, cleanup, loc,
                   out, tryVars>>

\* command_impl.define(cmd, cmdline, overwrite, ...) with one of the given
\* commandlines
CmdSetDefineOf(p, cmdlines) ==
    /\ At(p, "cset_define")
    /\ \E cmdline \in cmdlines, overwrite \in BOOLEAN :
          \E r \in {define(cmdStore, op[p].name, cmdline, overwrite)} :
              /\ cmdStore' = r.store
              /\ Say(p, Outcome(out[p], "cmd", op[p].name, r, overwrite))
              /\ SetLoc(p, [loc[p] EXCEPT !.defined = Defined(cmdline, r)])
              /\ Return(p, r.status)
    /\ UNCHANGED <<files, seqStore, st, op, want, registered, cleanup,
                   tryVars>>

CmdSetDefine(p) == CmdSetDefineOf(p, Cmdlines)

\* command.cli_edit: after the three lock calls
CmdEditRead(p) ==
    /\ At(p, "cedit_read")
    /\ IF exists(cmdStore, op[p].name)
       THEN Goto(p, "cedit_release")
       ELSE Goto(p, "cedit_seqchk")
    /\ UNCHANGED <<files, storeVars, st, op, want, registered, cleanup, loc,
                   rc, out, tryVars>>

CmdEditSeqChk(p) ==
    /\ At(p, "cedit_seqchk")
    /\ IF exists(seqStore, op[p].name)
       THEN Return(p, 1)
       ELSE Goto(p, "cedit_temp") /\ UNCHANGED rc
    /\ UNCHANGED <<files, storeVars, st, op, want, registered, cleanup, loc,
                   out, tryVars>>

\* register the cleanup function and write the placeholder command
CmdEditTemp(p) ==
    /\ At(p, "cedit_temp")
    /\ cleanup' = [cleanup EXCEPT ![p] = op[p].name]
    /\ cmdStore' = write_item(cmdStore, op[p].name, CmdDoc(<<>>), "w").store
    /\ Goto(p, "cedit_release")
    /\ UNCHANGED <<files, seqStore, st, op, want, registered, loc, rc, out,
                   tryVars>>

CmdEditRelease(p) ==
    /\ At(p, "cedit_release")
    /\ files' = release_inventory_lock(
                    release_inventory_lock(files, "cmd", "WRITE", p),
                    "seq", "READ", p)
    /\ Goto(p, "cedit_input")
    /\ UNCHANGED <<storeVars, st, op, want, registered, cleanup, loc, rc,
                   out, tryVars>>

\* editline returns the user's commandline; define(cmd, new_cmdline, True)
CmdEditDefineOf(p, cmdlines) ==
    /\ At(p, "cedit_input")
    /\ \E new_cmdline \in cmdlines :
          \E r \in {define(cmdStore, op[p].name, new_cmdline, TRUE)} :
              /\ cmdStore' = r.store
              /\ Say(p, Outcome(out[p], "cmd", op[p].name, r, TRUE))
              /\ SetLoc(p, [loc[p] EXCEPT !.defined = Defined(new_cmdline, r)])
              /\ IF cleanup[p] # NoName /\ r.status # 0
                 THEN /\ Goto(p, "cedit_cleanup")
                      /\ UNCHANGED <<cleanup, rc>>
                 ELSE /\ cleanup' = [cleanup EXCEPT ![p] = NoName]
                      /\ Return(p, r.status)
    /\ UNCHANGED <<files, seqStore, st, op, want, registered, tryVars>>

CmdEditDefine(p) == CmdEditDefineOf(p, Cmdlines)

\* cleanup_placeholder_fun() after a failed define, then unregister
CmdEditCleanup(p) ==
    /\ At(p, "cedit_cleanup")
    /\ cmdStore' = delete_item(cmdStore, cleanup[p], AbsentCmd, TRUE).store
    /\ cleanup' = [cleanup EXCEPT ![p] = NoName]
    /\ Return(p, 1)
    /\ UNCHANGED <<files, seqStore, st, op, want, registered, loc, out,
                   tryVars>>

\* command.cli_del: sequence_impl.all_names()
CmdDelList(p) ==
    /\ At(p, "cdel_list")
    /\ SetLoc(p, [loc[p] EXCEPT !.todo = all_names(seqStore)])
    /\ Goto(p, "cdel_scan")
    /\ UNCHANGED <<files, storeVars, st, op, want, registered, cleanup, rc,
                   out, tryVars>>

\* one sequence_impl.read_dict of the scan (FileNotFoundError is passed over);
\* err accumulates "some delcmd is in some read sequence"
CmdDelScan(p) ==
    /\ At(p, "cdel_scan")
    /\ IF loc[p].todo = <<>>
       THEN IF loc[p].err
            THEN Return(p, 1) /\ UNCHANGED loc
            ELSE /\ Goto(p, "cdel_delete")
                 /\ SetLoc(p, [loc[p] EXCEPT !.todo = op[p].list])
                 /\ UNCHANGED rc
       ELSE LET seq == Head(loc[p].todo)
                used == /\ seqStore[seq].present
                        /\ Range(op[p].list) \cap Range(seqStore[seq].commands) # {}
            IN  /\ SetLoc(p, [loc[p] EXCEPT !.todo = Tail(@),
                                            !.err = @ \/ used])
                /\ UNCHANGED <<pc, rc>>
    /\ UNCHANGED <<files, storeVars, st, op, want, registered, cleanup, out,
                   tryVars>>

\* one command_impl.delete(cmd, False) of the deletion loop
CmdDelDelete(p) ==
    /\ At(p, "cdel_delete")
    /\ IF loc[p].todo = <<>>
       THEN Return(p, 0) /\ UNCHANGED <<cmdStore, loc, out>>
       ELSE \E r \in {delete_item(cmdStore, Head(loc[p].todo), AbsentCmd,
                                  FALSE)} :
            /\ cmdStore' = r.store
            /\ Say(p, IF r.raised
                      THEN NotFound(out[p], "cmd", Head(loc[p].todo))
                      ELSE out[p])
            /\ SetLoc(p, [loc[p] EXCEPT !.todo = Tail(@)])
            /\ UNCHANGED <<pc, rc>>
    /\ UNCHANGED <<files, seqStore, st, op, want, registered, cleanup,
                   tryVars>>

\* exit statuses of an executed commandline
RunStatuses == {0, 2}

\* command_impl.run(cmd, args, unused_args) up to the execution: what was
\* resolved (kind "absent": no such command, "fail": the args were rejected
\* or a placeholder has no value, "raised": an exception escapes, "ran": the
\* commandline or the virtual tool was executed), the statuses the call can
\* return and the args list after it
run(store, cmd, args) ==
    LET not_run(kind) ==
            [kind |-> kind, cmdline |-> <<>>, values |-> EmptyDict,
             vtool |-> FALSE, statuses |-> {1}, run_args |-> args]
        executed(updated, formatted, vtool) ==
            IF vtool.raised THEN not_run("raised")
            ELSE [kind |-> "ran", cmdline |-> formatted.text,
                  values |-> updated.values, vtool |-> vtool.vtool,
                  statuses |-> IF vtool.vtool THEN vtool.statuses
                               ELSE RunStatuses,
                  run_args |-> vtool.run_args]
        substituted(updated, formatted) ==
            IF ~formatted.ok THEN not_run("raised")
            ELSE executed(updated, formatted, dispatch(formatted.text, args))
        resolved(cmd_dict, updated) ==
            IF ~updated.ok THEN not_run("fail")
            ELSE substituted(updated,
                             Format(cmd_dict.format, 1, updated.values))
        read(cmd_dict) ==
            resolved(cmd_dict,
                     update_runtime_values_from_args(
                         cmd_dict.args, cmd_dict.args_modifiers,
                         cmd_dict.toggle_args, args))
    IN  IF ~exists(store, cmd) THEN not_run("absent")
        ELSE read(store[cmd])

\* command_with_values(cmd, all_args, unused_args, False): the loaded and
\* modified cmd_dict, or absent (None)
command_with_values_default(store, cmd, all_args) ==
    LET updated(cmd_dict, u) ==
            IF u.ok
            THEN [cmd_dict EXCEPT !.args = u.values,
                                  !.toggle_args = u.togglevalues]
            ELSE AbsentCmd
        read(cmd_dict) ==
            IF ~cmd_dict.present THEN AbsentCmd
            ELSE updated(cmd_dict,
                         update_default_values_from_args(
                             cmd_dict.args, cmd_dict.toggle_args, all_args))
    IN  read(IF exists(store, cmd) THEN store[cmd] ELSE AbsentCmd)

\* one command_impl.run call as the handler saw it: the command, the args it
\* was given, what was resolved and executed, and the status returned
Ran(cmd, args, r, status) ==
    [cmd |-> cmd, args |-> args, kind |-> r.kind, cmdline |-> r.cmdline,
     values |-> r.values, vtool |-> r.vtool, status |-> status]

\* command.cli_run: command_impl.run(cmd, args, unused_args); an exception
\* that escapes ends the process with status 1
CmdRun(p) ==
    /\ At(p, "crun_run")
    /\ \E r \in {run(cmdStore, op[p].name, loc[p].args)} :
           \E status \in r.statuses :
              /\ SetLoc(p, [loc[p] EXCEPT
                               !.args = r.run_args,
                               !.ran = Append(@, Ran(op[p].name, loc[p].args,
                                                     r, status))])
              /\ Return(p, status)
    /\ UNCHANGED <<files, storeVars, st, op, want, registered, cleanup, out,
                   tryVars>>

\* command.cli_print: no lock; read and print
CmdPrint(p) ==
    /\ At(p, "cprint_read")
    /\ Return(p, IF exists(cmdStore, op[p].name) THEN 0 ELSE 1)
    /\ UNCHANGED <<files, storeVars, st, op, want, registered, cleanup, loc,
                   out, tryVars>>

\* command.cli_print_all / cli_vals_all: all_names(), then multi_item_lock
CmdAllList(p) ==
    /\ At(p, "call_list")
    /\ LET command_names == all_names(cmdStore)
       IN  /\ SetLoc(p, [loc[p] EXCEPT !.todo = command_names])
           /\ Lock(p, multi_item_lock("cmd", command_names,
                        IF op[p].oper = "cmd_vals_all" THEN "WRITE" ELSE "READ"))
    /\ Goto(p, IF op[p].oper = "cmd_vals_all" THEN "vals_read" ELSE "print_multi")
    /\ UNCHANGED <<files, storeVars, st, op, registered, cleanup, rc, out,
                   tryVars>>

\* print_multi(commands): reads the commands and prints
PrintMulti(p) ==
    /\ At(p, "print_multi")
    /\ Return(p, 0)
    /\ UNCHANGED <<files, storeVars, st, op, want, registered, cleanup, loc,
                   out, tryVars>>

\* the same, with the loop of the caller left at the first failed update
ValsRead_stops_at_failure(p) ==
    /\ At(p, "vals_read")
    /\ IF loc[p].todo = <<>>
       THEN Return(p, IF loc[p].err THEN 1 ELSE 0) /\ UNCHANGED <<loc, out>>
       ELSE LET cmd == Head(loc[p].todo)
            IN  \E cmd_dict \in {command_with_values_default(
                                      cmdStore, cmd, loc[p].args)} :
                  IF cmd_dict.present
                  THEN /\ SetLoc(p, [loc[p] EXCEPT !.cur = cmd_dict])
                       /\ Goto(p, "vals_write")
                       /\ UNCHANGED <<rc, out>>
                  ELSE /\ SetLoc(p, [loc[p] EXCEPT !.todo = <<>>, !.err = TRUE])
                       /\ Say(p, IF exists(cmdStore, cmd) THEN out[p]
                                 ELSE NotFound(out[p], "cmd", cmd))
                       /\ UNCHANGED <<pc, rc>>
    /\ UNCHANGED <<files, storeVars, st, op, want, registered, cleanup,
                   tryVars>>

\* command_impl.vals, first half: command_with_values reads the command and
\* applies the args; None (the command is missing, or an arg is rejected)
\* makes vals return 1, which the callers' loops record in their error flag
ValsRead(p) ==
    /\ At(p, "vals_read")
    /\ IF loc[p].todo = <<>>
       THEN Return(p, IF loc[p].err THEN 1 ELSE 0) /\ UNCHANGED <<loc, out>>
       ELSE LET cmd == Head(loc[p].todo)
            IN  \E cmd_dict \in {command_with_values_default(
                                      cmdStore, cmd, loc[p].args)} :
                  IF cmd_dict.present
                  THEN /\ SetLoc(p, [loc[p] EXCEPT !.cur = cmd_dict])
                       /\ Goto(p, "vals_write")
                       /\ UNCHANGED <<rc, out>>
                  ELSE /\ SetLoc(p, [loc[p] EXCEPT !.todo = Tail(@), !.err = TRUE])
                       /\ Say(p, IF exists(cmdStore, cmd) THEN out[p]
                                 ELSE NotFound(out[p], "cmd", cmd))
                       /\ UNCHANGED <<pc, rc>>
    /\ UNCHANGED <<files, storeVars, st, op, want, registered, cleanup,
                   tryVars>>

\* command_impl.vals, second half: update_cmdline and write_dict(cmd, .., "w")
ValsWrite(p) ==
    /\ At(p, "vals_write")
    /\ cmdStore' = write_item(cmdStore, Head(loc[p].todo),
                             update_cmdline(loc[p].cur), "w").store
    /\ SetLoc(p, [loc[p] EXCEPT !.todo = Tail(@), !.cur = AbsentCmd])
    /\ Goto(p, "vals_read")
    /\ UNCHANGED <<files, seqStore, st, op, want, registered, cleanup, rc,
                   out, tryVars>>

(* ------------------------- sequence operations ------------------------- *)

\* sequence.cli_set: after the two lock calls
SeqSetExists(p) ==
    /\ At(p, "sset_exists")
    /\ IF ~exists(seqStore, op[p].name)
       THEN /\ Lock(p, <<InvReq("cmd", "READ")>>)
            /\ Goto(p, "sset_cmdchk")
       ELSE /\ Goto(p, "sdef_args")
            /\ UNCHANGED want
    /\ UNCHANGED <<files, storeVars, st, op, registered, cleanup, loc, rc,
                   out, tryVars>>

SeqSetCmdChk(p) ==
    /\ At(p, "sset_cmdchk")
    /\ IF exists(cmdStore, op[p].name)
       THEN Return(p, 1)
       ELSE Goto(p, "sdef_args") /\ UNCHANGED rc
    /\ UNCHANGED <<files, storeVars, st, op, want, registered, cleanup, loc,
                   out, tryVars>>

\* sequence.cli_edit: after the three lock calls
SeqEditRead(p) ==
    /\ At(p, "sedit_read")
    /\ IF exists(seqStore, op[p].name)
       THEN Goto(p, "sedit_release")
       ELSE Goto(p, "sedit_cmdchk")
    /\ UNCHANGED <<files, storeVars, st, op, want, registered, cleanup, loc,
                   rc, out, tryVars>>

SeqEditCmdChk(p) ==
    /\ At(p, "sedit_cmdchk")
    /\ IF exists(cmdStore, op[p].name)
       THEN Return(p, 1)
       ELSE Goto(p, "sedit_temp") /\ UNCHANGED rc
    /\ UNCHANGED <<files, storeVars, st, op, want, registered, cleanup, loc,
                   out, tryVars>>

\* register cleanup_fun and sequence_impl_core.create_temp(seq)
SeqEditTemp(p) ==
    /\ At(p, "sedit_temp")
    /\ cleanup' = [cleanup EXCEPT ![p] = op[p].name]
    /\ seqStore' = write_item(seqStore, op[p].name, SeqDoc(<<>>), "w").store
    /\ Goto(p, "sedit_release")
    /\ UNCHANGED <<files, cmdStore, st, op, want, registered, loc, rc, out,
                   tryVars>>

\* all_names() for the completions, then the two release_inventory_lock calls
SeqEditRelease(p) ==
    /\ At(p, "sedit_release")
    /\ files' = release_inventory_lock(
                    release_inventory_lock(files, "cmd", "READ", p),
                    "seq", "WRITE", p)
    /\ Goto(p, "sdef_args")
    /\ UNCHANGED <<storeVars, st, op, want, registered, cleanup, loc, rc,
                   out, tryVars>>

\* the arguments of sequence_impl_op.define are evaluated: the command list
\* (given on the commandline, or typed at editline), and undefined_cmds(),
\* which takes the cmd inventory readlock unless ignore_undefined_cmds
SeqDefineArgsOf(p, flags) ==
    /\ At(p, "sdef_args")
    /\ \E cmds \in CmdLists, ignore_undefined_cmds \in flags :
          /\ SetLoc(p, [loc[p] EXCEPT !.cmds = cmds])
          /\ IF ignore_undefined_cmds
             THEN Goto(p, "sdef_define") /\ UNCHANGED want
             ELSE Lock(p, <<InvReq("cmd", "READ")>>) /\ Goto(p, "sdef_undef")
    /\ UNCHANGED <<files, storeVars, st, op, registered, cleanup, rc, out,
                   tryVars>>

SeqDefineArgs(p) == SeqDefineArgsOf(p, BOOLEAN)

\* undefined_cmds: set(cmds) - set(all_names())
SeqDefineUndef(p) ==
    /\ At(p, "sdef_undef")
    /\ SetLoc(p, [loc[p] EXCEPT
           !.err = Range(loc[p].cmds) \ Range(all_names(cmdStore)) # {}])
    /\ Goto(p, "sdef_define")
    /\ UNCHANGED <<files, storeVars, st, op, want, registered, cleanup, rc,
                   out, tryVars>>

\* sequence_impl_op.define, and what cli_set / cli_edit do with its status;
\* cli_edit passes overwrite=True
SeqDefine(p) ==
    /\ At(p, "sdef_define")
    /\ \E overwrite \in (IF op[p].oper = "seq_edit" THEN {TRUE} ELSE BOOLEAN) :
          LET r == seq_define(seqStore, op[p].name, loc[p].cmds, loc[p].err,
                              overwrite)
          IN  /\ seqStore' = r.store
              /\ Say(p, Outcome(out[p], "seq", op[p].name, r, overwrite))
              /\ IF cleanup[p] # NoName /\ r.status # 0
                 THEN /\ Goto(p, "sedit_cleanup")
                      /\ UNCHANGED <<cleanup, rc>>
                 ELSE /\ cleanup' = [cleanup EXCEPT ![p] = NoName]
                      /\ Return(p, r.status)
    /\ UNCHANGED <<loc, files, cmdStore, st, op, want, registered, tryVars>>

\* cleanup_fun() after a failed define: sequence_impl_op.delete(seq, True)
SeqEditCleanup(p) ==
    /\ At(p, "sedit_cleanup")
    /\ seqStore' = delete_item(seqStore, cleanup[p], AbsentSeq, TRUE).store
    /\ cleanup' = [cleanup EXCEPT ![p] = NoName]
    /\ Return(p, 1)
    /\ UNCHANGED <<files, cmdStore, st, op, want, registered, loc, out,
                   tryVars>>

\* sequence.cli_del: one sequence_impl_op.delete(seq, False) of the loop
SeqDelDelete(p) ==
    /\ At(p, "sdel_delete")
    /\ IF loc[p].todo = <<>>
       THEN Return(p, 0) /\ UNCHANGED <<seqStore, loc, out>>
       ELSE \E r \in {delete_item(seqStore, Head(loc[p].todo), AbsentSeq,
                                  FALSE)} :
            /\ seqStore' = r.store
            /\ Say(p, IF r.raised
                      THEN NotFound(out[p], "seq", Head(loc[p].todo))
                      ELSE out[p])
            /\ SetLoc(p, [loc[p] EXCEPT !.todo = Tail(@)])
            /\ UNCHANGED <<pc, rc>>
    /\ UNCHANGED <<files, cmdStore, st, op, want, registered, cleanup,
                   tryVars>>

\* a read that hands the loop the list in the order of its locks
SeqRead_lock_order(p) ==
    /\ At(p, "seq_read")
    /\ IF ~exists(seqStore, op[p].name)
       THEN Return(p, 1) /\ UNCHANGED <<loc, want>>
       ELSE LET cmd_list == seqStore[op[p].name].commands
            IN  /\ SetLoc(p, [loc[p] EXCEPT !.todo = Sorted(cmd_list),
                                            !.cmds = cmd_list])
                /\ Lock(p, multi_item_lock("cmd", cmd_list,
                       IF op[p].oper = "seq_vals" THEN "WRITE" ELSE "READ"))
                /\ Goto(p, IF op[p].oper = "seq_print" THEN "print_multi"
                           ELSE "seq_release")
                /\ UNCHANGED rc
    /\ UNCHANGED <<files, storeVars, st, op, registered, cleanup, out,
                   tryVars>>

\* sequence.cli_print / cli_run / cli_vals: read the sequence's command list,
\* then multi_item_lock on it
SeqRead(p) ==
    /\ At(p, "seq_read")
    /\ IF ~exists(seqStore, op[p].name)
       THEN Return(p, 1) /\ UNCHANGED <<loc, want>>
       ELSE LET cmd_list == seqStore[op[p].name].commands
            IN  /\ SetLoc(p, [loc[p] EXCEPT !.todo = cmd_list,
                                            !.cmds = cmd_list])
                /\ Lock(p, multi_item_lock("cmd", cmd_list,
                       IF op[p].oper = "seq_vals" THEN "WRITE" ELSE "READ"))
                /\ Goto(p, IF op[p].oper = "seq_print" THEN "print_multi"
                           ELSE "seq_release")
                /\ UNCHANGED rc
    /\ UNCHANGED <<files, storeVars, st, op, registered, cleanup, out,
                   tryVars>>

\* cli_run / cli_vals: release_inventory_lock("cmd", READ)
SeqRelease(p) ==
    /\ At(p, "seq_release")
    /\ files' = release_inventory_lock(files, "cmd", "READ", p)
    /\ Goto(p, IF op[p].oper = "seq_vals" THEN "vals_read" ELSE "srun_cmd")
    /\ UNCHANGED <<storeVars, st, op, want, registered, cleanup, loc, rc,
                   out, tryVars>>

\* sequence.cli_run: one pass of the loop over cmd_list; op.list is
\* skip_cmdnames and op.flag is ignore_errors.  An exception that escapes the
\* run call ends the process with status 1
SeqRunCmd(p) ==
    /\ At(p, "srun_cmd")
    /\ IF loc[p].todo = <<>>
       THEN Return(p, 0) /\ UNCHANGED loc
       ELSE LET cmd == Head(loc[p].todo)
            IN  IF cmd \in Range(op[p].list)
                THEN /\ SetLoc(p, [loc[p] EXCEPT !.todo = Tail(@)])
                     /\ UNCHANGED <<pc, rc>>
                ELSE \E r \in {run(cmdStore, cmd, loc[p].args)} :
                     \E status \in r.statuses :
                       /\ SetLoc(p, [loc[p] EXCEPT
                                        !.todo = Tail(@),
                                        !.args = r.run_args,
                                        !.ran = Append(@, Ran(cmd, loc[p].args,
                                                              r, status))])
                       /\ IF r.kind = "raised" THEN Return(p, 1)
                          ELSE IF status # 0 /\ ~op[p].flag
                               THEN Return(p, status)
                               ELSE UNCHANGED <<pc, rc>>
    /\ UNCHANGED <<files, storeVars, st, op, want, registered, cleanup, out,
                   tryVars>>

(* --------------------------- export / import --------------------------- *)

\* xfer.cli_export: item_io.cmd_names(), item_io.seq_names(), then the two
\* multi_item_lock calls
ExportList(p) ==
    /\ At(p, "export_list")
    /\ Lock(p, multi_item_lock("cmd", all_names(cmdStore), "READ")
               \o multi_item_lock("seq", all_names(seqStore), "READ"))
    /\ Goto(p, "export_write")
    /\ UNCHANGED <<files, storeVars, st, op, registered, cleanup, loc, rc,
                   out, tryVars>>

\* read every listed item and write the export file
ExportWrite(p) ==
    /\ At(p, "export_write")
    /\ Return(p, 0)
    /\ UNCHANGED <<files, storeVars, st, op, want, registered, cleanup, loc,
                   out, tryVars>>

\* current_export_schema_ver(): the number of entries of
\* EXPORT_SCHEMA_CHANGE_VERSIONS, for a package version not older than the
\* last of them
export_schema_ver == 1

\* import files: the "schema_version" and the "commands" and "sequences"
\* lists of the YAML document
ImportFiles ==
    { [schema_version |-> export_schema_ver,
       commands |-> <<[name |-> NameA, cmdline |-> <<"v">>]>>,
       sequences |-> <<[name |-> NameG, commands |-> <<NameA>>]>>],
      [schema_version |-> export_schema_ver,
       commands |-> <<[name |-> NameB, cmdline |-> <<"w">>]>>,
       sequences |-> <<[name |-> NameA, commands |-> <<NameG>>]>>] }

\* xfer.cli_import with overwrite: the names of all items, then the two
\* multi_item_lock calls
ImportList(p) ==
    /\ At(p, "import_list")
    /\ Lock(p, multi_item_lock("cmd", all_names(cmdStore), "WRITE")
               \o multi_item_lock("seq", all_names(seqStore), "WRITE"))
    /\ Goto(p, "import_open")
    /\ UNCHANGED <<files, storeVars, st, op, registered, cleanup, loc, rc,
                   out, tryVars>>

\* open the import file and load it
ImportOpenOf(p, import_files) ==
    /\ At(p, "import_open")
    /\ \E import_dict \in import_files :
          SetLoc(p, [loc[p] EXCEPT !.icmds = import_dict.commands,
                                   !.iseqs = import_dict.sequences,
                                   !.ischema = import_dict.schema_version])
    /\ Goto(p, "import_cmdchk")
    /\ UNCHANGED <<files, storeVars, st, op, want, registered, cleanup, rc,
                   out, tryVars>>

ImportOpen(p) == ImportOpenOf(p, ImportFiles)

\* commands loop: item_io.seq_exists(cmd)
ImportCmdChk(p) ==
    /\ At(p, "import_cmdchk")
    /\ IF loc[p].icmds = <<>>
       THEN Goto(p, "import_seqchk") /\ UNCHANGED loc
       ELSE IF exists(seqStore, Head(loc[p].icmds).name)
            THEN SetLoc(p, [loc[p] EXCEPT !.icmds = Tail(@)]) /\ UNCHANGED pc
            ELSE Goto(p, "import_cmddef") /\ UNCHANGED loc
    /\ UNCHANGED <<files, storeVars, st, op, want, registered, cleanup, rc,
                   out, tryVars>>

\* commands loop: command_impl_op.define(cmd, cmdline, overwrite, ...)
ImportCmdDefine(p) ==
    /\ At(p, "import_cmddef")
    /\ LET icmd == Head(loc[p].icmds)
       IN  \E r \in {define(cmdStore, icmd.name, icmd.cmdline, op[p].flag)} :
           /\ cmdStore' = r.store
           /\ Say(p, Outcome(out[p], "cmd", icmd.name, r, op[p].flag))
           /\ SetLoc(p, [loc[p] EXCEPT
                         !.icmds = Tail(@),
                         !.defined = Defined(icmd.cmdline, r)])
    /\ Goto(p, "import_cmdchk")
    /\ UNCHANGED <<files, seqStore, st, op, want, registered, cleanup, rc,
                   tryVars>>

\* sequences loop: item_io.cmd_exists(seq)
ImportSeqChk(p) ==
    /\ At(p, "import_seqchk")
    /\ IF loc[p].iseqs = <<>>
       THEN Return(p, 0) /\ UNCHANGED loc
       ELSE IF exists(cmdStore, Head(loc[p].iseqs).name)
            THEN /\ SetLoc(p, [loc[p] EXCEPT !.iseqs = Tail(@)])
                 /\ UNCHANGED <<pc, rc>>
            ELSE Goto(p, "import_seqdef") /\ UNCHANGED <<loc, rc>>
    /\ UNCHANGED <<files, storeVars, st, op, want, registered, cleanup, out,
                   tryVars>>

\* sequences loop: sequence_impl_op.define(seq, commands, [], overwrite, ...)
ImportSeqDefine(p) ==
    /\ At(p, "import_seqdef")
    /\ LET seq_dict == Head(loc[p].iseqs)
           r == seq_define(seqStore, seq_dict.name, seq_dict.commands, FALSE,
                           op[p].flag)
       IN  /\ seqStore' = r.store
           /\ Say(p, Outcome(out[p], "seq", seq_dict.name, r, op[p].flag))
           /\ SetLoc(p, [loc[p] EXCEPT !.iseqs = Tail(@)])
    /\ Goto(p, "import_seqchk")
    /\ UNCHANGED <<files, cmdStore, st, op, want, registered, cleanup, rc,
                   tryVars>>

(* ------------------------- process life cycle -------------------------- *)

\* the invocations: one operation per process.  The operations that create
\* items are run on every name, the others on the names that tell their
\* cases apart
Invocations ==
    {Oper(o, n, <<>>, FALSE) :
        o \in {"cmd_set", "cmd_edit", "seq_set", "seq_edit"}, n \in Names}
    \cup {Oper(o, n, <<>>, FALSE) :
            o \in {"cmd_run", "cmd_vals"}, n \in {NameA, NameG}}
    \cup {Oper(o, n, <<>>, FALSE) :
            o \in {"seq_print", "seq_vals"}, n \in {NameB, NameG}}
    \cup {Oper("cmd_print", NameA, <<>>, FALSE)}
    \cup {Oper("seq_run", NameB, <<>>, f) : f \in BOOLEAN}
    \cup {Oper("cmd_del", NoName, l, FALSE) : l \in DelLists}
    \cup {Oper("cmd_del", NoName, <<NameA>>, TRUE)}
    \cup {Oper("seq_del", NoName, l, FALSE) : l \in DelLists}
    \cup {Oper(o, NoName, <<>>, FALSE) :
            o \in {"cmd_print_all", "cmd_vals_all", "export"}}
    \cup {Oper("import", NoName, <<>>, f) : f \in BOOLEAN}

\* the lock calls a handler makes on entry
EntryLocks(o) ==
    CASE o.oper \in {"cmd_set", "cmd_edit"} ->
            <<InvReq("seq", "READ"), InvReq("cmd", "WRITE"),
              ItemReq("cmd", o.name, "WRITE")>>
      [] o.oper = "cmd_del" ->
            (IF ~o.flag THEN <<InvReq("seq", "READ")>> ELSE <<>>)
            \o <<InvReq("cmd", "WRITE")>>
            \o multi_item_lock("cmd", o.list, "WRITE")
      [] o.oper = "cmd_run" -> <<ItemReq("cmd", o.name, "READ")>>
      [] o.oper = "cmd_vals" -> <<ItemReq("cmd", o.name, "WRITE")>>
      [] o.oper = "cmd_print" -> <<>>
      [] o.oper \in {"cmd_print_all", "cmd_vals_all"} -> <<InvReq("cmd", "READ")>>
      [] o.oper = "seq_set" ->
            <<InvReq("seq", "WRITE"), ItemReq("seq", o.name, "WRITE")>>
      [] o.oper = "seq_edit" ->
            <<InvReq("seq", "WRITE"), ItemReq("seq", o.name, "WRITE"),
              InvReq("cmd", "READ")>>
      [] o.oper = "seq_del" ->
            <<InvReq("seq", "WRITE")>> \o multi_item_lock("seq", o.list, "WRITE")
      [] o.oper \in {"seq_print", "seq_run"} ->
            <<ItemReq("seq", o.name, "READ"), InvReq("cmd", "READ")>>
      [] o.oper = "seq_vals" ->
            <<ItemReq("seq", o.name, "WRITE"), InvReq("cmd", "READ")>>
      [] o.oper = "export" -> <<InvReq("seq", "READ"), InvReq("cmd", "READ")>>
      [] o.oper = "import" -> <<InvReq("seq", "WRITE"), InvReq("cmd", "WRITE")>>

\* where the handler continues after its entry locks
EntryLabel(o) ==
    CASE o.oper = "cmd_set" -> "cset_exists"
      [] o.oper = "cmd_edit" -> "cedit_read"
      [] o.oper = "cmd_del" -> IF o.flag THEN "cdel_delete" ELSE "cdel_list"
      [] o.oper = "cmd_run" -> "crun_run"
      [] o.oper = "cmd_vals" -> "vals_read"
      [] o.oper = "cmd_print" -> "cprint_read"
      [] o.oper \in {"cmd_print_all", "cmd_vals_all"} -> "call_list"
      [] o.oper = "seq_set" -> "sset_exists"
      [] o.oper = "seq_edit" -> "sedit_read"
      [] o.oper = "seq_del" -> "sdel_delete"
      [] o.oper \in {"seq_print", "seq_run", "seq_vals"} -> "seq_read"
      [] o.oper = "export" -> "export_list"
      [] o.oper = "import" -> IF o.flag THEN "import_list" ELSE "import_open"

EntryLocals(o) ==
    [NoLocals EXCEPT !.todo = IF o.oper \in {"cmd_del", "seq_del"} THEN o.list
                              ELSE IF o.oper = "cmd_vals" THEN <<o.name>>
                              ELSE <<>>,
                     !.args = o.args]

\* a process starts on one of the given invocations; processes get their pids
\* in the order they start, and at most nprocs of them run
StartOf(p, invocations, nprocs) ==
    /\ p <= nprocs
    /\ st[p] = "idle"
    /\ \A q \in Procs : q < p => st[q] # "idle"
    /\ \E o \in invocations :
          /\ op' = [op EXCEPT ![p] = o]
          /\ want' = [want EXCEPT ![p] = EntryLocks(o)]
          /\ pc' = [pc EXCEPT ![p] = EntryLabel(o)]
          /\ loc' = [loc EXCEPT ![p] = EntryLocals(o)]
    /\ st' = [st EXCEPT ![p] = "run"]
    /\ UNCHANGED <<files, storeVars, registered, cleanup, rc, out, tryVars>>

Start(p) == StartOf(p, Invocations, MaxProcs)

\* the temp item the registered cleanup function deletes, if one is registered
RunCleanup(store, p, absent_doc, kind) ==
    IF cleanup[p] # NoName /\ kind
    THEN delete_item(store, cleanup[p], absent_doc, TRUE).store
    ELSE store

\* interpreter shutdown: the atexit functions run (the cleanup function, then
\* remove_lock for every registered lock path); nothing of the process is left
Shutdown(p) ==
    /\ cmdStore' = RunCleanup(cmdStore, p, AbsentCmd, op[p].oper = "cmd_edit")
    /\ seqStore' = RunCleanup(seqStore, p, AbsentSeq, op[p].oper = "seq_edit")
    /\ files' = files \ registered[p]
    /\ st' = [st EXCEPT ![p] = "exited"]
    /\ cleanup' = [cleanup EXCEPT ![p] = NoName]
    /\ registered' = [registered EXCEPT ![p] = {}]
    /\ want' = [want EXCEPT ![p] = <<>>]
    /\ first_try' = [first_try EXCEPT ![p] = TRUE]
    /\ waiting' = [waiting EXCEPT ![p] = 0]
    /\ op' = [op EXCEPT ![p] = NoOp]
    /\ pc' = [pc EXCEPT ![p] = "done"]
    /\ loc' = [loc EXCEPT ![p] = NoLocals]
    /\ rc' = [rc EXCEPT ![p] = -1]
    /\ UNCHANGED <<made, out, initVars>>

\* the handler returned: sys.exit(status)
Exit(p) ==
    /\ At(p, "done")
    /\ Shutdown(p)

\* the user abandons the interactive edit (EOF or interrupt at the prompt)
Abort(p) ==
    /\ \/ At(p, "cedit_input")
       \/ At(p, "sdef_args") /\ op[p].oper = "seq_edit"
    /\ Shutdown(p)

\* the process is killed while it holds markers: no atexit function runs, and
\* only its files stay behind
Kill(p) ==
    /\ st[p] = "run"
    /\ \E f \in files : f \in registered[p]
    /\ st' = [st EXCEPT ![p] = "killed"]
    /\ cleanup' = [cleanup EXCEPT ![p] = NoName]
    /\ registered' = [registered EXCEPT ![p] = {}]
    /\ want' = [want EXCEPT ![p] = <<>>]
    /\ first_try' = [first_try EXCEPT ![p] = TRUE]
    /\ waiting' = [waiting EXCEPT ![p] = 0]
    /\ op' = [op EXCEPT ![p] = NoOp]
    /\ pc' = [pc EXCEPT ![p] = "done"]
    /\ loc' = [loc EXCEPT ![p] = NoLocals]
    /\ rc' = [rc EXCEPT ![p] = -1]
    /\ UNCHANGED <<made, files, storeVars, out, initVars>>

(* ---------------------------- specification ---------------------------- *)

(* --------------------------- schema versions --------------------------- *)

\* "sep".join(parts)
RECURSIVE Join(_, _)
Join(sep, parts) ==
    IF parts = <<>> THEN <<>>
    ELSE IF Len(parts) = 1 THEN parts[1]
    ELSE parts[1] \o sep \o Join(sep, Tail(parts))

\* packaging's Version(s) for a version of numeric release segments with an
\* optional last segment devN: the release numbers and the dev number
Version(s) ==
    LET parts == Split(s, ".")
        last == parts[Len(parts)]
        has_dev == Len(last) > 3 /\ SubSeq(last, 1, 3) = <<"d", "e", "v">>
        segments == IF has_dev THEN SubSeq(parts, 1, Len(parts) - 1) ELSE parts
    IN  [release |-> [i \in 1..Len(segments) |-> ParseInt(segments[i])],
         dev |-> IF has_dev THEN Some(ParseInt(From(last, 4))) ELSE None]

\* Version.base_version: the release segments joined by "."
base_version(v) ==
    Join(<<".">>, [i \in 1..Len(v.release) |-> DecStr(v.release[i])])

\* the release of Version's comparison key: without its trailing zeros
RECURSIVE StripZeros(_)
StripZeros(release) ==
    IF release # <<>> /\ release[Len(release)] = 0
    THEN StripZeros(SubSeq(release, 1, Len(release) - 1))
    ELSE release

\* tuple comparison of two releases
RECURSIVE ReleaseLess(_, _)
ReleaseLess(a, b) ==
    IF a = <<>> THEN b # <<>>
    ELSE IF b = <<>> THEN FALSE
    ELSE IF a[1] = b[1] THEN ReleaseLess(Tail(a), Tail(b))
    ELSE a[1] < b[1]

\* Version.__lt__: by release, and a dev release before the final one
VersionLess(a, b) ==
    LET ra == StripZeros(a.release)
        rb == StripZeros(b.release)
    IN  IF ra # rb THEN ReleaseLess(ra, rb)
        ELSE IF a.dev.some /\ b.dev.some THEN a.dev.v < b.dev.v
        ELSE a.dev.some /\ ~b.dev.some

\* schema_ver_for_package_ver: the schema version or None; raised when the
\* list is empty (schema_change_versions[-1])
schema_ver_for_package_ver(query_package_ver_str, schema_change_versions) ==
    LET query_package_ver ==
            Version(base_version(Version(query_package_ver_str)))
        n == Len(schema_change_versions)
        \* the entries the reversed enumeration finds the query below
        below == {i \in 1..n :
                     VersionLess(query_package_ver,
                                 Version(schema_change_versions[i]))}
        first == CHOOSE i \in below : \A j \in below : j <= i
    IN  IF n = 0 THEN [raised |-> TRUE, v |-> None]
        ELSE IF ~VersionLess(query_package_ver,
                             Version(schema_change_versions[n]))
             THEN [raised |-> FALSE, v |-> Some(n)]
        ELSE IF below # {}
             THEN [raised |-> FALSE, v |-> Some(first - 1)]
        ELSE [raised |-> FALSE, v |-> None]

\* an installed chaintool package: its __version__ and its
\* INTERNAL_SCHEMA_CHANGE_VERSIONS
Package(version, changes) == [version |-> version, changes |-> changes]

V030 == <<"0", ".", "3", ".", "0">>
V030dev0 == V030 \o <<".", "d", "e", "v", "0">>
V035 == <<"0", ".", "3", ".", "5">>
V040 == <<"0", ".", "4", ".", "0">>
V10 == <<"1", ".", "0">>
V10dev1 == V10 \o <<".", "d", "e", "v", "1">>

\* the package of this source tree
ThisPackage == Package(V030dev0, <<V030>>)

\* this package, a later one of the same schema, and two later ones that each
\* changed the schema once more
Packages ==
    {ThisPackage,
     Package(V035, <<V030>>),
     Package(V040, <<V030, V040>>),
     Package(V10dev1, <<V030, V040, V10>>)}

\* sys.version up to its first space
PythonVer == <<"3", ".", "9", ".", "2">>

\* the modules init_modules initializes under the meta-lock, in order
InitModules == {"item_io", "shortcuts", "completions"}

\* no marker file exists: chaintool has not run
NoMarkers == [schema |-> None, chaintool |-> None, python |-> None]

\* a get_last_schema_version that never finds the marker file
get_last_schema_version_absent(marker_files) == 0

\* shared.get_last_schema_version
get_last_schema_version(marker_files) ==
    IF ~marker_files.schema.some THEN 0
    ELSE ParseInt(marker_files.schema.v)

\* the three set_last_... calls at the end of init_modules
SetMarkers(package, this_schema_ver) ==
    [schema |-> Some(DecStr(this_schema_ver)),
     chaintool |-> Some(package.version),
     python |-> Some(PythonVer)]

\* the markers init_modules of this package has left before any handler runs
InitializedMarkers ==
    SetMarkers(ThisPackage,
               schema_ver_for_package_ver(ThisPackage.version,
                                          ThisPackage.changes).v.v)

\* the store the runs start from: command "A" and sequence "B", which runs
\* it twice
InitStore ==
    [cmd |-> [n \in Names |-> IF n = NameA THEN CmdDoc(<<"v">>) ELSE AbsentCmd],
     seq |-> [n \in Names |-> IF n = NameB THEN SeqDoc(<<NameA, NameA>>)
                              ELSE AbsentSeq]]

InitAs(store, marker_files) ==
    /\ files = {}
    /\ cmdStore = store.cmd
    /\ seqStore = store.seq
    /\ st = [p \in Procs |-> "idle"]
    /\ op = [p \in Procs |-> NoOp]
    /\ pc = [p \in Procs |-> "done"]
    /\ want = [p \in Procs |-> <<>>]
    /\ first_try = [p \in Procs |-> TRUE]
    /\ waiting = [p \in Procs |-> 0]
    /\ registered = [p \in Procs |-> {}]
    /\ cleanup = [p \in Procs |-> NoName]
    /\ loc = [p \in Procs |-> NoLocals]
    /\ rc = [p \in Procs |-> -1]
    /\ out = [p \in Procs |-> NoOutput]
    /\ made = [p \in Procs |-> FALSE]
    /\ markers = marker_files
    /\ meta = 0
    /\ inited = [p \in Procs |-> InitModules]

\* the state handlers start from: init_modules of this package has run
InitWith(store) == InitAs(store, InitializedMarkers)

Init == InitWith(InitStore)

\* the steps of a running process's own code
Step(p) ==
    \/ LockPass(p)
    \/ CmdSetExists(p) \/ CmdSetSeqChk(p) \/ CmdSetDefine(p)
    \/ CmdEditRead(p) \/ CmdEditSeqChk(p) \/ CmdEditTemp(p)
    \/ CmdEditRelease(p) \/ CmdEditDefine(p) \/ CmdEditCleanup(p)
    \/ CmdDelList(p) \/ CmdDelScan(p) \/ CmdDelDelete(p)
    \/ CmdRun(p) \/ CmdPrint(p) \/ CmdAllList(p) \/ PrintMulti(p)
    \/ ValsRead(p) \/ ValsWrite(p)
    \/ SeqSetExists(p) \/ SeqSetCmdChk(p)
    \/ SeqEditRead(p) \/ SeqEditCmdChk(p) \/ SeqEditTemp(p)
    \/ SeqEditRelease(p)
    \/ SeqDefineArgs(p) \/ SeqDefineUndef(p) \/ SeqDefine(p)
    \/ SeqEditCleanup(p) \/ SeqDelDelete(p)
    \/ SeqRead(p) \/ SeqRelease(p) \/ SeqRunCmd(p)
    \/ ExportList(p) \/ ExportWrite(p)
    \/ ImportList(p) \/ ImportOpen(p) \/ ImportCmdChk(p)
    \/ ImportCmdDefine(p) \/ ImportSeqChk(p) \/ ImportSeqDefine(p)
    \/ Exit(p)

Next == \E p \in Procs : Start(p) \/ Step(p) \/ Abort(p) \/ Kill(p)

Spec == Init /\ [][Next]_vars

\* the operations that create and delete items, all on the one name "[A]",
\* run by one process more than the full set
NameInvocations ==
    {Oper(o, NameG, <<>>, FALSE) :
        o \in {"cmd_set", "cmd_edit", "seq_set", "seq_edit"}}
    \cup {Oper("cmd_del", NoName, <<NameG>>, FALSE)}
    \cup {Oper("seq_del", NoName, <<NameG>>, FALSE)}
    \cup {Oper("import", NoName, <<>>, FALSE)}

StartName(p) == StartOf(p, NameInvocations, MaxProcs + 1)

NextNames ==
    \E p \in Procs :
        \/ StartName(p)
        \/ LockPass(p)
        \/ CmdSetExists(p) \/ CmdSetSeqChk(p) \/ CmdSetDefine(p)
        \/ CmdEditRead(p) \/ CmdEditSeqChk(p) \/ CmdEditTemp(p)
        \/ CmdEditRelease(p) \/ CmdEditDefine(p) \/ CmdEditCleanup(p)
        \/ CmdDelList(p) \/ CmdDelScan(p) \/ CmdDelDelete(p)
        \/ SeqSetExists(p) \/ SeqSetCmdChk(p)
        \/ SeqEditRead(p) \/ SeqEditCmdChk(p) \/ SeqEditTemp(p)
        \/ SeqEditRelease(p)
        \/ SeqDefineArgs(p) \/ SeqDefineUndef(p) \/ SeqDefine(p)
        \/ SeqEditCleanup(p) \/ SeqDelDelete(p)
        \/ ImportOpen(p) \/ ImportCmdChk(p)
        \/ ImportCmdDefine(p) \/ ImportSeqChk(p) \/ ImportSeqDefine(p)
        \/ Exit(p) \/ Abort(p)

\* this workload starts from the store that also holds command "[A]"
InitNames == InitWith([InitStore EXCEPT !.cmd[NameG] = CmdDoc(<<"v">>)])

SpecNames == InitNames /\ [][NextNames]_vars

\* one process alone, which keeps running its code while a step of it is
\* possible (the scheduler does not starve it; the user answers the prompt)
StartSolo(p) == StartOf(p, Invocations, 1)

NextSolo == \E p \in Procs : StartSolo(p) \/ Step(p) \/ Abort(p) \/ Kill(p)

SpecSolo == Init /\ [][NextSolo]_vars /\ \A p \in Procs : WF_vars(Step(p))

\* cmd del against seq edit: the sequence "B" is edited while command "A",
\* which no sequence uses at first, is deleted
DelInvocations ==
    {Oper("seq_edit", NameB, <<>>, FALSE),
     Oper("cmd_del", NoName, <<NameA>>, FALSE),
     Oper("cmd_del", NoName, <<NameB, NameA>>, FALSE),
     Oper("cmd_del", NoName, <<NameA>>, TRUE)}

StartDel(p) == StartOf(p, DelInvocations, MaxProcs)

NextDel ==
    \E p \in Procs :
        \/ StartDel(p)
        \/ LockPass(p)
        \/ SeqEditRead(p) \/ SeqEditCmdChk(p) \/ SeqEditTemp(p)
        \/ SeqEditRelease(p) \/ SeqDefineArgs(p) \/ SeqDefineUndef(p)
        \/ SeqDefine(p) \/ SeqEditCleanup(p)
        \/ CmdDelList(p) \/ CmdDelScan(p) \/ CmdDelDelete(p)
        \/ Exit(p) \/ Abort(p)

InitDel == InitWith([InitStore EXCEPT !.seq[NameB] = AbsentSeq])

SpecDel == InitDel /\ [][NextDel]_vars

\* runs: command "A" assigns X with chaintool-env, command "B" uses X, and
\* sequence "[A]" runs B, A, B; B's X has a default or none
EnvCmdline ==
    VtoolEnv \o <<" ", "X", "=", "5">>
UseCmdlines ==
    {<<"w", " ", "{", "X", "}">>, <<"w", " ", "{", "X", "=", "3", "}">>}

\* the placeholder args of a run: none, or a value for X
RunArgs == {<<>>, << <<"X", "=", "7">> >>}

\* the --skip lists of a seq run
SkipLists == {<<>>, <<NameA>>, <<NameB>>}

RunInvocations ==
    {RunOper("seq_run", NameG, skip, f, args) :
        skip \in SkipLists, f \in BOOLEAN, args \in RunArgs}
    \cup {RunOper("cmd_run", n, <<>>, FALSE, args) :
            n \in {NameA, NameB}, args \in RunArgs}

StartRun(p) == StartOf(p, RunInvocations, MaxProcs)

NextRun ==
    \E p \in Procs :
        \/ StartRun(p)
        \/ LockPass(p)
        \/ CmdRun(p)
        \/ SeqRead(p) \/ SeqRelease(p) \/ SeqRunCmd(p)
        \/ Exit(p)

InitRun ==
    \E cmdline \in UseCmdlines :
        InitWith([cmd |-> [n \in Names |->
                            IF n = NameA THEN CmdDoc(EnvCmdline)
                            ELSE IF n = NameB THEN CmdDoc(cmdline)
                            ELSE AbsentCmd],
                  seq |-> [n \in Names |->
                            IF n = NameG THEN SeqDoc(<<NameB, NameA, NameB>>)
                            ELSE AbsentSeq]])

SpecRun == InitRun /\ [][NextRun]_vars

\* The define workload: one process defines a command with set, edit or
\* import from a template of up to MaxTokens placeholder tokens.

\* a token: a toggle or a placeholder, its modifiers, its name and the values
\* it gives (none, a default, or the off and the on value)
Token(toggle, modifiers, name, values) ==
    [toggle |-> toggle, modifiers |-> modifiers, name |-> name,
     values |-> values]

Tokens ==
    { Token(FALSE, <<>>, <<"p">>, <<>>),
      Token(FALSE, <<>>, <<"p">>, << <<"1">> >>),
      Token(FALSE, <<>>, <<"p">>, << <<"2">> >>),
      Token(FALSE, << <<"s", "t", "e", "m">> >>, <<"p">>, <<>>),
      Token(FALSE, << <<"x">> >>, <<"p">>, <<>>),
      Token(FALSE, <<>>, <<"p", ".">>, <<>>),
      Token(FALSE, <<>>, <<"t">>, <<>>),
      Token(TRUE, <<>>, <<"t">>, <<>>),
      Token(TRUE, <<>>, <<"t">>, <<<<"a">>, <<"b">>>>),
      Token(TRUE, <<>>, <<"t">>, <<<<"a">>, <<"c">>>>) }

\* the text of a token between its braces
TokenText(tok) ==
    IF tok.toggle
    THEN <<"+">> \o tok.name
         \o (IF tok.values = <<>> THEN <<>>
             ELSE <<"=">> \o tok.values[1] \o <<":">> \o tok.values[2])
    ELSE (IF tok.modifiers = <<>> THEN <<>>
          ELSE tok.modifiers[1] \o <<"/">>)
         \o tok.name
         \o (IF tok.values = <<>> THEN <<>> ELSE <<"=">> \o tok.values[1])

\* the commandline "w {token} {token}"
RECURSIVE TemplateOf(_)
TemplateOf(toks) ==
    IF toks = <<>> THEN <<"w">>
    ELSE TemplateOf(SubSeq(toks, 1, Len(toks) - 1))
         \o <<" ", "{">> \o TokenText(toks[Len(toks)]) \o <<"}">>

TokenLists == UNION {[1..n -> Tokens] : n \in 0..MaxTokens}

Templates == {TemplateOf(toks) : toks \in TokenLists}

DefineImportFiles ==
    { [schema_version |-> export_schema_ver,
       commands |-> <<[name |-> n, cmdline |-> cmdline]>>,
       sequences |-> <<>>] :
        n \in {NameA, NameB}, cmdline \in Templates }

DefineInvocations ==
    {Oper(o, n, <<>>, FALSE) : o \in {"cmd_set", "cmd_edit"},
                                n \in {NameA, NameB}}
    \cup {Oper("import", NoName, <<>>, f) : f \in BOOLEAN}

StartDefine(p) == StartOf(p, DefineInvocations, 1)

NextDefine ==
    \E p \in Procs :
        \/ StartDefine(p)
        \/ LockPass(p)
        \/ CmdSetExists(p) \/ CmdSetSeqChk(p) \/ CmdSetDefineOf(p, Templates)
        \/ CmdEditRead(p) \/ CmdEditSeqChk(p) \/ CmdEditTemp(p)
        \/ CmdEditRelease(p) \/ CmdEditDefineOf(p, Templates)
        \/ CmdEditCleanup(p)
        \/ ImportList(p) \/ ImportOpenOf(p, DefineImportFiles)
        \/ ImportCmdChk(p) \/ ImportCmdDefine(p) \/ ImportSeqChk(p)
        \/ Exit(p)

\* the store holds command A
InitDefine ==
    InitWith([cmd |-> [n \in Names |-> IF n = NameA THEN CmdDoc(<<"v">>)
                                       ELSE AbsentCmd],
              seq |-> [n \in Names |-> AbsentSeq]])

SpecDefine == InitDefine /\ [][NextDefine]_vars

(* ------------------------------- claims -------------------------------- *)

\* the lockable resources: the two inventories and every item
Resources ==
    {InventoryPrefix(t) : t \in {"cmd", "seq"}}
    \cup {ItemPrefix(t, n) : t \in {"cmd", "seq"}, n \in Names}

Live(p) == st[p] = "run"

Holds(p, prefix, lock_type) == LockPath(prefix, lock_type, p) \in files

\* C1: while a live process holds a WRITE marker on a resource (an inventory,
\* or an item of any valid name), no other live process holds a marker of
\* either type on that resource
C1_WriteExcludesOthers ==
    \A prefix \in Resources : \A p, q \in Procs :
        (p # q /\ Live(p) /\ Live(q) /\ Holds(p, prefix, "WRITE"))
            => ~(Holds(q, prefix, "WRITE") \/ Holds(q, prefix, "READ"))

\* p is inside a lock_internal call
Requesting(p) == Live(p) /\ want[p] # <<>>

HoldsAny(p, prefix) == Holds(p, prefix, "READ") \/ Holds(p, prefix, "WRITE")

\* a marker of another process on the resource of req that req conflicts with
OthersConflict(p, req) ==
    \E q \in Procs \ {p} :
        \/ Holds(q, req.prefix, "WRITE")
        \/ req.type = "WRITE" /\ Holds(q, req.prefix, "READ")

\* C2: a process that holds a marker on a resource and requests a lock on that
\* resource again, while no other process holds a conflicting marker on it,
\* does not fail its first pass (its own markers are not conflicts)
C2_OwnMarkersNeverConflict ==
    [][\A p \in Procs :
          (/\ Requesting(p)
           /\ first_try[p]
           /\ HoldsAny(p, Head(want[p]).prefix)
           /\ ~OthersConflict(p, Head(want[p])))
          => first_try'[p]]_vars

\* p's pending lock_internal call finds a marker of the live process q
\* conflicting
WaitsFor(p, q) ==
    /\ Requesting(p)
    /\ Live(q)
    /\ \E l \in ConflictingLocks(p, Head(want[p]).type, Head(want[p]).prefix) :
          locker_pid(l) = PyInt(q)

\* C3: no set of live processes in which each waits for a lock held by
\* another one of the set
C3_NoWaitCycle ==
    ~ \E S \in SUBSET Procs :
         /\ S # {}
         /\ \A p \in S : \E q \in S \ {p} : WaitsFor(p, q)

\* position of a resource in the acquisition order: sequence inventory,
\* sequence items, command inventory, command items
LockClass(prefix) ==
    IF prefix = InventoryPrefix("seq") THEN 1
    ELSE IF \E n \in Names : prefix = ItemPrefix("seq", n) THEN 2
    ELSE IF prefix = InventoryPrefix("cmd") THEN 3
    ELSE 4

\* C4: a process never requests a lock of an earlier class while it holds a
\* marker of a later class
C4_AcquisitionOrder ==
    \A p \in Procs :
        Requesting(p) =>
            \A prefix \in Resources :
                HoldsAny(p, prefix) =>
                    LockClass(prefix) <= LockClass(Head(want[p]).prefix)

\* C5: no name is stored both as a command and as a sequence
C5_NamesDisjoint ==
    \A n \in Names : ~(exists(cmdStore, n) /\ exists(seqStore, n))

\* C6: a process inside a lock request that no marker of another process
\* conflicts with eventually has the request granted (or stops running, or
\* meets a conflicting marker of another process)
C6_RequestEventuallyGranted ==
    \A p \in Procs :
        (Requesting(p) /\ ~OthersConflict(p, Head(want[p])))
            ~> (~Requesting(p) \/ OthersConflict(p, Head(want[p])))

\* this step is a pass of p's lock_internal loop (one that changes the state)
PassOf(p) ==
    /\ Requesting(p)
    /\ st'[p] = "run"
    /\ \/ want'[p] # want[p]
       \/ first_try'[p] # first_try[p]
       \/ waiting'[p] # waiting[p]

\* C7: after a pass of a lock request, no marker of a process that is not
\* alive is left on the requested resource that the request conflicts with
C7_DeadMarkersDeleted ==
    [][\A p \in Procs :
          PassOf(p) =>
              \A q \in Procs \ {p} :
                  st[q] # "run" =>
                      LET req == Head(want[p])
                      IN  /\ LockPath(req.prefix, "WRITE", q) \notin files'
                          /\ req.type = "WRITE" =>
                                 LockPath(req.prefix, "READ", q) \notin files'
      ]_vars

\* C8: a READ request on a resource that no other process has a WRITE marker
\* on is granted without the requester going to sleep
C8_ReadGrantedWithoutWaiting ==
    [][\A p \in Procs :
          (/\ Requesting(p)
           /\ Head(want[p]).type = "READ"
           /\ waiting[p] = 0
           /\ \A q \in Procs \ {p} : ~Holds(q, Head(want[p]).prefix, "WRITE"))
          => waiting'[p] = 0]_vars

\* p has passed a release_inventory_lock call for this inventory and lock type
\* and has not requested that lock again
Released(p, item_type, lock_type) ==
    /\ Live(p)
    /\ want[p] = <<>>
    /\ \/ /\ pc[p] = "cedit_input"
          /\ <<item_type, lock_type>> \in {<<"cmd", "WRITE">>, <<"seq", "READ">>}
       \/ /\ op[p].oper = "seq_edit" /\ pc[p] = "sdef_args"
          /\ <<item_type, lock_type>> \in {<<"cmd", "READ">>, <<"seq", "WRITE">>}
       \/ /\ \/ pc[p] = "srun_cmd"
             \/ op[p].oper = "seq_vals" /\ pc[p] \in {"vals_read", "vals_write"}
          /\ <<item_type, lock_type>> = <<"cmd", "READ">>

\* C9: no marker carries the pid of a process that has exited through
\* interpreter shutdown, and a marker a process has explicitly released is
\* gone at once
C9_MarkersRemoved ==
    /\ \A p \in Procs :
          st[p] = "exited" => \A f \in files : locker_pid(f) # PyInt(p)
    /\ \A p \in Procs, item_type \in {"cmd", "seq"}, lock_type \in {"READ", "WRITE"} :
          Released(p, item_type, lock_type)
              => ~Holds(p, InventoryPrefix(item_type), lock_type)

\* a process that created markers has exited, while another one, at the
\* prompt of cmd edit, has released its inventory locks and keeps its item lock
C9_Witness ==
    \E p, q \in Procs :
        /\ st[p] = "exited" /\ made[p]
        /\ Released(q, "cmd", "WRITE")
        /\ Holds(q, ItemPrefix("cmd", op[q].name), "WRITE")

Items == {"cmd", "seq"} \X Names

StoreOf(item_type) == IF item_type = "cmd" THEN cmdStore ELSE seqStore

\* C10: a create-only define creates an item only if the item was absent, and
\* otherwise observes that it already exists and leaves the stored content as
\* it was; so of two processes that define the same absent item create-only,
\* one creates it and the other leaves what the first one wrote
C10_CreateOnlyOnce ==
    [][\A p \in Procs : \A i \in Items :
          /\ (i \in out'[p].created /\ i \notin out[p].created)
                => /\ ~exists(StoreOf(i[1]), i[2])
                   /\ exists(StoreOf(i[1])', i[2])
                   /\ \A q \in Procs \ {p} :
                         i \in out[q].created => st[q] # "run"
          /\ (i \in out'[p].existed /\ i \notin out[p].existed)
                => /\ exists(StoreOf(i[1]), i[2])
                   /\ UNCHANGED storeVars]_vars

\* the process that started first found the item created by the process that
\* started after it
C10_Witness ==
    \E p, q \in Procs : \E i \in Items :
        /\ q < p
        /\ i \in out[p].created
        /\ i \in out[q].existed

\* p is blocked in editline, at the prompt of cmd edit or seq edit
AtPrompt(p) ==
    \/ At(p, "cedit_input")
    \/ At(p, "sdef_args") /\ op[p].oper = "seq_edit"

\* C11: a process blocked at the prompt of cmd edit or seq edit holds no lock
\* marker at all
C11_EditHoldsNoMarker ==
    \A p \in Procs :
        AtPrompt(p) => \A f \in files : locker_pid(f) # PyInt(p)

\* p's edit has run define again and returns its failure
EditFails(p) ==
    /\ \/ At(p, "cedit_input") \/ At(p, "cedit_cleanup")
       \/ /\ op[p].oper = "seq_edit"
          /\ At(p, "sdef_define") \/ At(p, "sedit_cleanup")
    /\ st'[p] = "run" /\ pc'[p] = "done" /\ rc'[p] > 0

\* C12: when an edit returns the failure of its define, a name that was absent
\* before the edit (the edit wrote a placeholder for it) is neither a command
\* nor a sequence, and an item that existed keeps its content
C12_FailedEditLeavesNothing ==
    [][\A p \in Procs :
          EditFails(p) =>
              IF cleanup[p] # NoName
              THEN /\ ~exists(cmdStore', op[p].name)
                   /\ ~exists(seqStore', op[p].name)
              ELSE UNCHANGED storeVars]_vars

\* the step is one of process p
Acted(p) ==
    <<st[p], pc[p], loc[p], want[p], rc[p], op[p]>>
        # <<st'[p], pc'[p], loc'[p], want'[p], rc'[p], op'[p]>>

\* C13: a step that writes or deletes an item document is taken by a process
\* that holds the WRITE marker of that item, and one that creates or deletes an
\* item by a process that holds the WRITE marker of the kind's inventory
C13_MutationsUnderWriteLock ==
    [][\A i \in Items :
          StoreOf(i[1])[i[2]] # StoreOf(i[1])'[i[2]] =>
              \E p \in Procs :
                  /\ Acted(p)
                  /\ Holds(p, ItemPrefix(i[1], i[2]), "WRITE")
                  /\ exists(StoreOf(i[1]), i[2]) # exists(StoreOf(i[1])', i[2])
                        => Holds(p, InventoryPrefix(i[1]), "WRITE")]_vars

\* a sequence in the store runs one of the given commands
Referenced(cmds) ==
    \E s \in Names :
        exists(seqStore, s) /\ Range(cmds) \cap Range(seqStore[s].commands) # {}

\* C14: cmd del without the override deletes a command only while no stored
\* sequence runs any of its targets, and changes nothing when it returns
\* nonzero; with the override it returns with every target deleted
C14_DelRespectsUsage ==
    [][\A p \in Procs :
          (op[p].oper = "cmd_del" /\ Acted(p) /\ st'[p] = "run") =>
              /\ (~op[p].flag /\ cmdStore' # cmdStore)
                    => ~Referenced(op[p].list)
              /\ (pc'[p] = "done" /\ rc'[p] > 0) => UNCHANGED storeVars
              /\ (op[p].flag /\ pc[p] # "done" /\ pc'[p] = "done")
                    => /\ rc'[p] = 0
                       /\ \A c \in Range(op[p].list) : ~exists(cmdStore', c)]_vars

\* the commands of a list that are not in the skip list, in the list's order
Unskipped(cmd_list, skip_cmdnames) ==
    LET Kept(cmd) == cmd \notin Range(skip_cmdnames)
    IN  SelectSeq(cmd_list, Kept)

\* the members of the sequence's list the loop of p has passed
Passed(p) == SubSeq(loc[p].cmds, 1, Len(loc[p].cmds) - Len(loc[p].todo))

SeqRunning(p) == st[p] = "run" /\ op[p].oper = "seq_run"

\* C15: at every point of a seq run, the members executed so far are, in
\* this order, the members of the stored list passed so far that are not in
\* the skip set (so none of the skip set is ever executed, and the order is
\* the list's, not the sorted order of the locks); and when ignore-errors is
\* unset no member is executed after one that returned nonzero
C15_RunsInListOrder ==
    \A p \in Procs : SeqRunning(p) =>
        LET ran == loc[p].ran
        IN  /\ [i \in 1..Len(ran) |-> ran[i].cmd]
                  = Unskipped(Passed(p), op[p].list)
            /\ ~op[p].flag =>
                  \A i \in 1..Len(ran) : ran[i].status # 0 => i = Len(ran)

\* a run of B, A, B has executed B and then A: not the order of the locks
C15_Witness ==
    \E p \in Procs :
        /\ SeqRunning(p)
        /\ Len(loc[p].ran) >= 2
        /\ loc[p].ran[1].cmd = NameB /\ loc[p].ran[1].kind = "ran"
        /\ loc[p].ran[2].cmd = NameA /\ loc[p].ran[2].kind = "ran"

\* the args list a seq run held after its i-th run call
ArgsAfter(p, i) ==
    IF i < Len(loc[p].ran) THEN loc[p].ran[i + 1].args ELSE loc[p].args

\* the assignments the i-th run call of p appended to the args list
Assigned(p, i) == Range(ArgsAfter(p, i)) \ Range(loc[p].ran[i].args)

\* C16: in a seq run, every member run after a chaintool-env command that
\* made an assignment is given that assignment and resolves the assigned
\* placeholder to the assigned value, and no member run before it is given
\* it; with no X= argument supplied, B = "w {X}" run after A =
\* "chaintool-env X=5" executes "w 5"
C16_EnvAssignmentsFlowForward ==
    \A p \in Procs : SeqRunning(p) =>
        LET ran == loc[p].ran
        IN  \A i \in 1..Len(ran) :
              /\ \A a \in Assigned(p, i) :
                    LET name == env_op_parse(a).v[1]
                        value == env_op_parse(a).v[2]
                    IN  /\ ran[i].vtool
                        /\ \A j \in 1..i : a \notin Range(ran[j].args)
                        /\ \A j \in (i + 1)..Len(ran) :
                              /\ a \in Range(ran[j].args)
                              /\ (ran[j].kind = "ran"
                                  /\ name \in DOMAIN ran[j].values)
                                    => ran[j].values[name] = Some(value)
              /\ \A j \in (i + 1)..Len(ran) :
                    (/\ op[p].args = <<>>
                     /\ ran[i].cmd = NameA /\ ran[i].status = 0
                     /\ ran[j].cmd = NameB)
                        => /\ ran[j].kind = "ran"
                           /\ ran[j].cmdline = <<"w", " ", "5">>

\* a run without args of B, A, B where B = "w {X}": the first B had no value
\* for X, then A assigned X=5 and the second B executed "w 5"
C16_Witness ==
    \E p \in Procs :
        /\ SeqRunning(p)
        /\ op[p].args = <<>>
        /\ cmdStore[NameB].cmdline = <<"w", " ", "{", "X", "}">>
        /\ Len(loc[p].ran) = 3
        /\ loc[p].ran[1].kind = "fail"
        /\ Assigned(p, 2) = {<<"X", "=", "5">>}
        /\ loc[p].ran[3].cmdline = <<"w", " ", "5">>

\* the entries of ran whose commandline (or virtual tool) was executed
Executed(p) == SelectSeq(loc[p].ran, LAMBDA e : e.kind = "ran")

\* the process has returned from a cmd run or a seq run
Returned(p, oper) == st[p] = "run" /\ pc[p] = "done" /\ op[p].oper = oper

\* C17: cmd run returns the exit status of the executed commandline or virtual
\* tool; seq run returns the exit status of the last executed member whenever
\* that status is nonzero, with or without ignore-errors, and returns 0 only
\* when it is 0
C17_ExitStatusPropagates ==
    \A p \in Procs :
        LET executed == Executed(p)
            last == executed[Len(executed)].status
        IN  executed # <<>> =>
               /\ Returned(p, "cmd_run") => rc[p] = last
               /\ Returned(p, "seq_run") =>
                     /\ last # 0 => rc[p] = last
                     /\ rc[p] = 0 => last = 0

\* the cmd run half of C17, and the seq run half without ignore-errors
C17_HoldsWithoutIgnoreErrors ==
    \A p \in Procs :
        LET executed == Executed(p)
            last == executed[Len(executed)].status
        IN  executed # <<>> =>
               /\ Returned(p, "cmd_run") => rc[p] = last
               /\ Returned(p, "seq_run") /\ ~op[p].flag =>
                     /\ last # 0 => rc[p] = last
                     /\ rc[p] = 0 => last = 0

\* The violations of a template, read off its tokens.

\* the tokens of a template of the define workload
TokensOf(cmdline) == CHOOSE toks \in TokenLists : TemplateOf(toks) = cmdline

Occurring(toks) == {toks[i] : i \in 1..Len(toks)}

\* names whose syntax is bad: not alphanumeric and underscore only
BadNames(toks) ==
    {tok.name : tok \in {t \in Occurring(toks) :
        \E i \in 1..Len(t.name) :
           t.name[i] \notin Letters \cup {Digits[d] : d \in DOMAIN Digits}
                                   \cup {"_"}}}

\* names with a modifier outside the known set
BadModifiers(toks) ==
    {tok.name : tok \in {t \in Occurring(toks) :
        \E i \in 1..Len(t.modifiers) : t.modifiers[i] \notin MODIFIERS_DISPATCH}}

\* names given differing values (defaults, or off/on values) by two tokens of
\* the same kind
Conflicting(toks, toggle) ==
    {tok.name : tok \in {t \in Occurring(toks) :
        /\ t.toggle = toggle
        /\ t.values # <<>>
        /\ \E u \in Occurring(toks) :
              /\ u.toggle = toggle /\ u.name = t.name
              /\ u.values # <<>> /\ u.values # t.values}}

\* toggles declared without both values
TogglesWithoutValues(toks) ==
    {tok.name : tok \in {t \in Occurring(toks) : t.toggle /\ t.values = <<>>}}

\* names used as a toggle and as a non-toggle
ToggleAndPlain(toks) ==
    {tok.name : tok \in {t \in Occurring(toks) :
        t.toggle /\ \E u \in Occurring(toks) : ~u.toggle /\ u.name = t.name}}

Violations(toks) ==
    BadNames(toks) \cup BadModifiers(toks) \cup Conflicting(toks, FALSE)
    \cup Conflicting(toks, TRUE) \cup TogglesWithoutValues(toks)
    \cup ToggleAndPlain(toks)

\* this step is process p's call of define
DefineStep(p) ==
    /\ st[p] = "run"
    /\ pc[p] \in {"cset_define", "cedit_input", "import_cmddef"}
    /\ loc'[p] # loc[p]
    /\ loc'[p].defined # NoDefine

\* C18: when the template given to define (by set, edit or import) has a
\* validation violation, define returns nonzero and writes nothing, so an
\* existing item keeps its content and an absent name stays absent
C18_InvalidTemplateWritesNothing ==
    [][\A p \in Procs :
          DefineStep(p)
          /\ Violations(TokensOf(loc'[p].defined.cmdline)) # {}
          => /\ loc'[p].defined.status # 0
             /\ cmdStore' = cmdStore]_vars

\* C18 for the templates in which every toggle gives both values
C18_HoldsWhenTogglesGiveValues ==
    [][\A p \in Procs :
          DefineStep(p)
          /\ Violations(TokensOf(loc'[p].defined.cmdline)) # {}
          /\ TogglesWithoutValues(TokensOf(loc'[p].defined.cmdline)) = {}
          => /\ loc'[p].defined.status # 0
             /\ cmdStore' = cmdStore]_vars

\* C19: for a template with a toggle token that does not give both values,
\* define fails, reports the toggle in toggles_without_values and writes no
\* command document
C19_ToggleWithoutValuesRejected ==
    [][\A p \in Procs :
          DefineStep(p) =>
             \A name \in TogglesWithoutValues(
                             TokensOf(loc'[p].defined.cmdline)) :
                /\ loc'[p].defined.status # 0
                /\ {name, <<"+">> \o name}
                      \cap loc'[p].defined.errors.toggles_without_values # {}
                /\ cmdStore' = cmdStore]_vars

ValsTokens ==
    { Token(FALSE, <<>>, <<"p">>, <<>>),
      Token(FALSE, <<>>, <<"p">>, << <<"1">> >>),
      Token(TRUE, <<>>, <<"t">>, <<<<"a">>, <<"b">>>>),
      Token(FALSE, <<>>, <<"q">>, << <<"{", "{">> >>),
      Token(FALSE, << <<"s", "t", "e", "m">> >>, <<"p">>, << <<"1">> >>) }

\* "w {token} {token}", and the same followed by a token that is not closed
ValsTemplates ==
    LET lists == UNION {[1..n -> ValsTokens] : n \in 0..MaxTokens}
    IN  {TemplateOf(toks) : toks \in lists}
        \cup {TemplateOf(toks) \o <<" ", "{", "p">> : toks \in lists}

\* the templates define accepts
AcceptedTemplates ==
    {t \in ValsTemplates : ~print_errors(process_cmdline(t).c.error_sets)}

\* the args of a vals invocation: none, new defaults (one with a right brace,
\* one with a left brace), a default removed, new toggle values, and the two
\* forms update_default_values_from_args rejects
ValsArgs ==
    { <<>>,
      << <<"p", "=", "2">> >>,
      << <<"p", "=", "}">> >>,
      << <<"q", "=", "{">> >>,
      << <<"p">> >>,
      << <<"+", "t", "=", "x", ":", "y">> >>,
      << <<"p", "=", "2">>, <<"+", "t", "=", "{", ":", "y">> >>,
      << <<"+", "t">> >>,
      << <<"s", "t", "e", "m", "/", "p", "=", "2">> >> }

ValsInvocations ==
    {RunOper("cmd_vals", n, <<>>, FALSE, args) :
        n \in {NameA, NameB}, args \in ValsArgs}
    \cup {RunOper("seq_vals", n, <<>>, FALSE, args) :
            n \in {NameB, NameG}, args \in ValsArgs}
    \cup {RunOper("cmd_vals_all", NoName, <<>>, FALSE, args) :
            args \in ValsArgs}

StartVals(p) == StartOf(p, ValsInvocations, 1)

NextVals ==
    \E p \in Procs :
        \/ StartVals(p)
        \/ LockPass(p)
        \/ CmdAllList(p)
        \/ SeqRead(p) \/ SeqRelease(p)
        \/ ValsRead(p) \/ ValsWrite(p)
        \/ Exit(p)

\* the store holds command A with an accepted template, command B or not,
\* and the sequence of B and A
InitVals ==
    \E cmdline \in AcceptedTemplates, b \in BOOLEAN :
        InitWith([cmd |-> [n \in Names |->
                            IF n = NameA THEN CmdDoc(cmdline)
                            ELSE IF n = NameB /\ b
                                 THEN CmdDoc(TemplateOf(<<
                                          Token(FALSE, <<>>, <<"p">>,
                                                << <<"1">> >>)>>))
                            ELSE AbsentCmd],
                  seq |-> [n \in Names |->
                            IF n = NameG THEN SeqDoc(<<NameB, NameA>>)
                            ELSE AbsentSeq]])

SpecVals == InitVals /\ [][NextVals]_vars

(* ------------------------------ C21, C22 ------------------------------- *)

\* the step in which command_impl.vals regenerates the commandline of the
\* command it has updated and writes the document
ValsWrote(p) ==
    /\ st[p] = "run"
    /\ pc[p] = "vals_write"
    /\ pc'[p] = "vals_read"

\* what define would store for the commandline of a document is what the
\* document holds: no error set, and the same format, args and toggle_args
ReparsesTo(r, doc) ==
    /\ ~print_errors(r.c.error_sets)
    /\ r.cmdline_format = doc.format
    /\ r.c.values_for_names = doc.args
    /\ r.c.togglevalues_for_names = doc.toggle_args

HasRightBrace(args) ==
    \E i \in 1..Len(args) : \E k \in 1..Len(args[i]) : args[i][k] = "}"

\* C21: after every successful vals update, parsing the stored cmdline the
\* way define does yields exactly the stored args, toggle_args and format,
\* whatever value strings the update accepted (braces included)
C21_ValsKeepsCmdlineConsistent ==
    [][\A p \in Procs :
          ValsWrote(p)
          => LET doc == cmdStore'[Head(loc[p].todo)]
             IN  ReparsesTo(process_cmdline(doc.cmdline), doc)]_vars

\* C21 for the args that hold no right brace
C21_HoldsWithoutRightBrace ==
    [][\A p \in Procs :
          ValsWrote(p) /\ ~HasRightBrace(op[p].args)
          => LET doc == cmdStore'[Head(loc[p].todo)]
             IN  ReparsesTo(process_cmdline(doc.cmdline), doc)]_vars

\* C22: for every template define accepts, vals with no override regenerates
\* an equivalent cmdline and leaves args and toggle_args as they were.  The
\* stored templates double every brace of a value, so the equivalent cmdline
\* is the same text
C22_ValsWithoutOverridesRoundTrips ==
    [][\A p \in Procs :
          ValsWrote(p) /\ op[p].args = <<>>
          => LET cmd == Head(loc[p].todo)
             IN  /\ cmdStore'[cmd].cmdline = cmdStore[cmd].cmdline
                 /\ cmdStore'[cmd].args = cmdStore[cmd].args
                 /\ cmdStore'[cmd].toggle_args = cmdStore[cmd].toggle_args]_vars

\* C22 for the templates whose last token is closed
C22_HoldsForClosedTokens ==
    [][\A p \in Procs :
          ValsWrote(p) /\ op[p].args = <<>>
          /\ cmdStore[Head(loc[p].todo)].cmdline[
                 Len(cmdStore[Head(loc[p].todo)].cmdline)] \in {"w", "}"}
          => LET cmd == Head(loc[p].todo)
             IN  /\ cmdStore'[cmd].cmdline = cmdStore[cmd].cmdline
                 /\ cmdStore'[cmd].args = cmdStore[cmd].args
                 /\ cmdStore'[cmd].toggle_args = cmdStore[cmd].toggle_args]_vars

(* -------------------------------- C23 ---------------------------------- *)

\* default values with escaped braces: the text written in the token, and
\* the value it stands for
BraceValues ==
    { [text |-> <<"1">>, value |-> <<"1">>],
      [text |-> <<"{", "{">>, value |-> <<"{">>],
      [text |-> <<"}", "}">>, value |-> <<"}">>],
      [text |-> <<"a", "{", "{", "b">>, value |-> <<"a", "{", "b">>],
      [text |-> <<"a", "}", "}", "b">>, value |-> <<"a", "}", "b">>],
      [text |-> <<"{", "{", "1", "}", "}">>, value |-> <<"{", "1", "}">>] }

\* the lists of tokens {p=value} and {q=value}
BraceTokenLists ==
    LET tokens == {Token(FALSE, <<>>, name, <<b.text>>) :
                      name \in {<<"p">>, <<"q">>}, b \in BraceValues}
    IN  UNION {[1..n -> tokens] : n \in 1..MaxTokens}

BraceTemplates == {TemplateOf(toks) : toks \in BraceTokenLists}

BraceImportFiles ==
    { [schema_version |-> export_schema_ver,
       commands |-> <<[name |-> n, cmdline |-> cmdline]>>,
       sequences |-> <<>>] :
        n \in {NameA, NameB}, cmdline \in BraceTemplates }

NextBraces ==
    \E p \in Procs :
        \/ StartDefine(p)
        \/ LockPass(p)
        \/ CmdSetExists(p) \/ CmdSetSeqChk(p)
        \/ CmdSetDefineOf(p, BraceTemplates)
        \/ CmdEditRead(p) \/ CmdEditSeqChk(p) \/ CmdEditTemp(p)
        \/ CmdEditRelease(p) \/ CmdEditDefineOf(p, BraceTemplates)
        \/ CmdEditCleanup(p)
        \/ ImportList(p) \/ ImportOpenOf(p, BraceImportFiles)
        \/ ImportCmdChk(p) \/ ImportCmdDefine(p) \/ ImportSeqChk(p)
        \/ Exit(p)

SpecBraces == InitDefine /\ [][NextBraces]_vars

\* the value a token's text stands for
ValueOf(text) == (CHOOSE b \in BraceValues : b.text = text).value

\* no name twice, and some value with a doubled brace
HasDoubledBrace(toks) ==
    /\ \A i, j \in 1..Len(toks) : i # j => toks[i].name # toks[j].name
    /\ \E i \in 1..Len(toks) : ValueOf(toks[i].values[1]) # toks[i].values[1]

\* the document expected for "w {p=..} {q=..}": every token one placeholder
\* of the format, and its value with the doubled braces made single
ExpectedDoc(doc, toks) ==
    /\ doc.present
    /\ doc.format =
          TemplateOf([i \in 1..Len(toks) |->
                        Token(FALSE, <<>>, toks[i].name, <<>>)])
    /\ doc.args = [name \in {toks[i].name : i \in 1..Len(toks)} |->
                     Some(ValueOf((CHOOSE tok \in Range(toks) :
                                      tok.name = name).values[1]))]

\* C23: for a token {name=value} whose value holds escaped doubled braces,
\* define parses the whole token as one placeholder and stores the value with
\* each doubled brace replaced by one literal brace
C23_EscapedBracesInValue ==
    [][\A p \in Procs : \A toks \in BraceTokenLists :
          /\ DefineStep(p)
          /\ loc'[p].defined.cmdline = TemplateOf(toks)
          /\ HasDoubledBrace(toks)
          => /\ loc'[p].defined.status = 0
             /\ \A n \in Names :
                   cmdStore'[n] # cmdStore[n]
                   => ExpectedDoc(cmdStore'[n], toks)]_vars

\* C23 for the values whose doubled braces are all left braces
C23_HoldsForLeftBraces ==
    [][\A p \in Procs : \A toks \in BraceTokenLists :
          /\ DefineStep(p)
          /\ loc'[p].defined.cmdline = TemplateOf(toks)
          /\ HasDoubledBrace(toks)
          /\ \A i \in 1..Len(toks) : \A k \in 1..Len(toks[i].values[1]) :
                toks[i].values[1][k] # "}"
          => /\ loc'[p].defined.status = 0
             /\ \A n \in Names :
                   cmdStore'[n] # cmdStore[n]
                   => ExpectedDoc(cmdStore'[n], toks)]_vars

(* ---------------- the workload of the run-resolution claims ------------ *)

Dirname == <<"d", "i", "r", "n", "a", "m", "e">>
Basename == <<"b", "a", "s", "e", "n", "a", "m", "e">>
Stem == <<"s", "t", "e", "m">>

\* the modifier chains of one and of two modifiers
Chains ==
    LET modifiers == {Dirname, Basename, Stem}
    IN  {<<m>> : m \in modifiers} \cup {<<m, n>> : m, n \in modifiers}

\* a token of a run template: a chain of modifiers (or none), the key, and
\* the text after the key
RunToken(chain, key, rest) == [chain |-> chain, key |-> key, rest |-> rest]

\* {p}, {p=a/b.c}, {stem/p}, {q}, {+t=a:b} and {+u=:c}
RunTokens ==
    { RunToken(<<>>, <<"p">>, <<>>),
      RunToken(<<>>, <<"p">>, <<"=", "a", "/", "b", ".", "c">>),
      RunToken(<<Stem>>, <<"p">>, <<>>),
      RunToken(<<>>, <<"q">>, <<>>),
      RunToken(<<>>, <<"+", "t">>, <<"=", "a", ":", "b">>),
      RunToken(<<>>, <<"+", "u">>, <<"=", ":", "c">>) }

\* "w {chain/p}" for every chain, and "w {token} {token}" over RunTokens
RunTokenLists ==
    {<<RunToken(chain, <<"p">>, <<>>)>> : chain \in Chains}
    \cup UNION {[1..n -> RunTokens] : n \in 0..MaxTokens}

RECURSIVE RunTemplateOf(_)
RunTemplateOf(toks) ==
    IF toks = <<>> THEN <<"w">>
    ELSE RunTemplateOf(SubSeq(toks, 1, Len(toks) - 1))
         \o <<" ", "{">> \o ModifiersPrefix(toks[Len(toks)].chain)
         \o toks[Len(toks)].key \o toks[Len(toks)].rest \o <<"}">>

\* the token lists whose template define accepts
AcceptedRunTokenLists ==
    {toks \in RunTokenLists :
        ~print_errors(process_cmdline(RunTemplateOf(toks)).c.error_sets)}

\* the path values given to p
PathValues ==
    { <<"x", "/", "a", "/", "b", ".", "c">>,
      <<"/", "a", ".", "b", "/", "c">>,
      <<"b", ".", "c", ".", "d">>,
      <<"b">> }

\* the args of a run: none, a value for p, a value for q, toggles
\* activated, and the forms update_runtime_values_from_args rejects
ResolveArgs ==
    {<<>>}
    \cup {<< <<"p", "=">> \o v >> : v \in PathValues}
    \cup { << <<"+", "t">> >>,
           << <<"p", "=", "b">>, <<"+", "t">>, <<"+", "u">> >>,
           << <<"p", "=", "b">>, <<"q", "=", "1">> >>,
           << <<"p">> >>,
           << <<"+", "t", "=", "x", ":", "y">> >> }

ResolveInvocations ==
    {RunOper("cmd_run", n, <<>>, FALSE, args) :
        n \in {NameA, NameB}, args \in ResolveArgs}

StartResolve(p) == StartOf(p, ResolveInvocations, 1)

NextResolve ==
    \E p \in Procs :
        \/ StartResolve(p)
        \/ LockPass(p)
        \/ CmdRun(p)
        \/ Exit(p)

\* the store holds command A with an accepted template
InitResolve ==
    \E toks \in AcceptedRunTokenLists :
        InitWith([cmd |-> [n \in Names |->
                            IF n = NameA THEN CmdDoc(RunTemplateOf(toks))
                            ELSE AbsentCmd],
                  seq |-> [n \in Names |-> AbsentSeq]])

SpecResolve == InitResolve /\ [][NextResolve]_vars

(* -------------------------------- C24 ---------------------------------- *)

\* the position of the last c in v, 0 when there is none
LastIndexOf(v, c) ==
    IF \E i \in 1..Len(v) : v[i] = c
    THEN CHOOSE i \in 1..Len(v) :
            v[i] = c /\ \A j \in (i + 1)..Len(v) : v[j] # c
    ELSE 0

\* the final segment of a path, and all but the final segment: what is
\* before the last slash, or the root when that slash is the leading one
FinalSegment(v) == SubSeq(v, LastIndexOf(v, "/") + 1, Len(v))
AllButFinalSegment(v) ==
    IF LastIndexOf(v, "/") = 1 THEN <<"/">>
    ELSE SubSeq(v, 1, LastIndexOf(v, "/") - 1)

\* a segment with its final extension, if any, stripped
WithoutExtension(segment) ==
    IF LastIndexOf(segment, ".") = 0 THEN segment
    ELSE SubSeq(segment, 1, LastIndexOf(segment, ".") - 1)

\* what a modifier yields.  stem as claimed: the final segment without its
\* extension; stem otherwise: the whole path, its final segment without its
\* extension
Modified(modifier, v, as_claimed) ==
    IF modifier = Dirname THEN AllButFinalSegment(v)
    ELSE IF modifier = Basename THEN FinalSegment(v)
    ELSE IF as_claimed THEN WithoutExtension(FinalSegment(v))
    ELSE SubSeq(v, 1, LastIndexOf(v, "/")) \o WithoutExtension(FinalSegment(v))

\* the chain applied right to left
RECURSIVE ChainResult(_, _, _)
ChainResult(chain, v, as_claimed) ==
    IF chain = <<>> THEN v
    ELSE Modified(Head(chain), ChainResult(Tail(chain), v, as_claimed),
                  as_claimed)

\* in every run that resolved its values, the key m1/../mk/name of each
\* modifier token holds the chain's result for the resolved value of name
ModifierKeysHold(as_claimed) ==
    \A p \in Procs : \A i \in 1..Len(loc[p].ran) :
        LET e == loc[p].ran[i]
        IN  e.kind = "ran" =>
              \A toks \in RunTokenLists :
                 RunTemplateOf(toks) = cmdStore[e.cmd].cmdline =>
                    \A k \in 1..Len(toks) :
                       toks[k].chain # <<>> =>
                          LET key == ModifiersPrefix(toks[k].chain)
                                     \o toks[k].key
                          IN  /\ key \in DOMAIN e.values
                              /\ e.values[key] =
                                    Some(ChainResult(toks[k].chain,
                                                     e.values[toks[k].key].v,
                                                     as_claimed))

\* C24: at run time each modifier-derived key m1/../mk/name holds the chain
\* applied right to left to the resolved value of name, where dirname yields
\* all but the final path segment, basename the final path segment, and stem
\* the basename with its final extension stripped
C24_ModifierKeysAsClaimed == ModifierKeysHold(TRUE)

\* C24 with stem as stem_modifier computes it: the whole value, directory
\* part included, with the final extension of its final segment stripped
C24_ModifierKeysWithPathStem == ModifierKeysHold(FALSE)

\* "w {basename/dirname/p}" run with p=x/a/b.c: the key basename/dirname/p
\* holds "a", the dirname taken first
C24_Witness ==
    \E p \in Procs :
        /\ Len(loc[p].ran) = 1
        /\ loc[p].ran[1].kind = "ran"
        /\ loc[p].ran[1].args = << <<"p", "=", "x", "/", "a", "/", "b", ".", "c">> >>
        /\ cmdStore[NameA].cmdline =
              RunTemplateOf(<<RunToken(<<Basename, Dirname>>, <<"p">>, <<>>)>>)
        /\ loc[p].ran[1].values[ModifiersPrefix(<<Basename, Dirname>>) \o <<"p">>]
              = Some(<<"a">>)

(* ------------------------------ C25, C26 ------------------------------- *)

\* the token lists of the template a run entry's command holds
TemplateTokensOf(e) ==
    {toks \in RunTokenLists : RunTemplateOf(toks) = cmdStore[e.cmd].cmdline}

\* the two values of a toggle token "=off:on"
OffValue(tok) == SubSeq(tok.rest, 2, LastIndexOf(tok.rest, ":") - 1)
OnValue(tok) == SubSeq(tok.rest, LastIndexOf(tok.rest, ":") + 1, Len(tok.rest))

IsToggle(tok) == tok.key[1] = "+"

\* C25: for a command whose template holds a toggle token {+t=a:b}, a run
\* without the argument +t resolves +t to a, and a run with it resolves +t
\* to b
C25_ToggleResolution ==
    \A p \in Procs : \A i \in 1..Len(loc[p].ran) :
        LET e == loc[p].ran[i]
        IN  e.kind = "ran" =>
              \A toks \in TemplateTokensOf(e) : \A k \in 1..Len(toks) :
                 IsToggle(toks[k]) =>
                    /\ toks[k].key \in DOMAIN e.values
                    /\ e.values[toks[k].key] =
                          IF toks[k].key \in Range(e.args)
                          THEN Some(OnValue(toks[k]))
                          ELSE Some(OffValue(toks[k]))

\* "w {+t=a:b} {+u=:c}" has been run with +t and executed "w b ", or without
\* args and executed "w a "
C25_Witness ==
    \E p \in Procs :
        /\ Len(loc[p].ran) = 1
        /\ loc[p].ran[1].kind = "ran"
        /\ {<<"+", "t">>, <<"+", "u">>} \subseteq DOMAIN loc[p].ran[1].values
        /\ \/ /\ loc[p].ran[1].args = << <<"+", "t">> >>
              /\ loc[p].ran[1].values[<<"+", "t">>] = Some(<<"b">>)
              /\ loc[p].ran[1].cmdline = <<"w", " ", "b", " ">>
           \/ /\ loc[p].ran[1].args = <<>>
              /\ loc[p].ran[1].values[<<"+", "t">>] = Some(<<"a">>)
              /\ loc[p].ran[1].values[<<"+", "u">>] = Some(<<>>)
              /\ loc[p].ran[1].cmdline = <<"w", " ", "a", " ">>

\* the non-toggle placeholders of the run entry's command that have no value:
\* no token of the name gives a default, and no argument name=value is
\* supplied
Unvalued(e) ==
    UNION {{toks[k].key : k \in {j \in 1..Len(toks) :
                /\ ~IsToggle(toks[j])
                /\ \A h \in 1..Len(toks) :
                      toks[h].key = toks[j].key => toks[h].rest = <<>>
                /\ \A a \in Range(e.args) :
                      \/ Len(a) <= Len(toks[j].key)
                      \/ SubSeq(a, 1, Len(toks[j].key) + 1)
                            # toks[j].key \o <<"=">>}} :
           toks \in TemplateTokensOf(e)}

\* C26: run returns nonzero and executes nothing, neither a subprocess nor a
\* virtual tool, when after the supplied arguments are applied a non-toggle
\* placeholder of the command still has no value
C26_UnvaluedPlaceholderFailsRun ==
    \A p \in Procs : \A i \in 1..Len(loc[p].ran) :
        LET e == loc[p].ran[i]
        IN  Unvalued(e) # {} => e.kind = "fail" /\ e.status # 0

\* "w {p} {q}" has been run with a value for p only: nothing was executed and
\* the status is 1
C26_Witness ==
    \E p \in Procs :
        /\ Len(loc[p].ran) = 1
        /\ cmdStore[NameA].cmdline =
              <<"w", " ", "{", "p", "}", " ", "{", "q", "}">>
        /\ loc[p].ran[1].args = << <<"p", "=", "b">> >>
        /\ Unvalued(loc[p].ran[1]) = {<<"q">>}
        /\ loc[p].ran[1].kind = "fail"
        /\ rc[p] = 1

(* -------------------------------- C27 ---------------------------------- *)

\* the args update_default_values_from_args rejects: a toggle named without
\* its two values, and a name with a modifier prefix
RejectedValsArgs ==
    { << <<"+", "t">> >>,
      << <<"s", "t", "e", "m", "/", "p", "=", "2">> >> }

\* the update of the command is one that fails: there is no such command, or
\* the args are rejected
UpdateFails(cmd, args) == ~cmdStore[cmd].present \/ args \in RejectedValsArgs

\* a vals over several commands: over the members of an existing sequence, or
\* over all commands
MultiVals(p) ==
    /\ st[p] = "run"
    /\ \/ op[p].oper = "cmd_vals_all"
       \/ op[p].oper = "seq_vals" /\ seqStore[op[p].name].present

ValsTargets(p) ==
    IF op[p].oper = "cmd_vals_all" THEN {n \in Names : cmdStore[n].present}
    ELSE Range(seqStore[op[p].name].commands)

\* the stored document holds what the args give: name=value as the default
\* of a placeholder of that name, +name=off:on as the values of such a toggle
HoldsArgs(doc, args) ==
    \A i \in 1..Len(args) :
        LET a == args[i]
            key == SubSeq(a, 1, LastIndexOf(a, "=") - 1)
            value == SubSeq(a, LastIndexOf(a, "=") + 1, Len(a))
        IN  /\ (LastIndexOf(a, "=") = 0 /\ a \in DOMAIN doc.args)
                  => doc.args[a] = None
            /\ (LastIndexOf(a, "=") # 0 /\ key \in DOMAIN doc.args)
                  => doc.args[key] = Some(value)
            /\ (LastIndexOf(a, "=") # 0 /\ key \in DOMAIN doc.toggle_args)
                  => doc.toggle_args[key] =
                        <<SubSeq(value, 1, LastIndexOf(value, ":") - 1),
                          SubSeq(value, LastIndexOf(value, ":") + 1, Len(value))>>

\* C27: vals over several commands attempts the update of every targeted
\* command even after some fail, writes each command whose update succeeds,
\* leaves each failed command's document unchanged, and returns nonzero if
\* and only if at least one update failed
C27_MultiValsContinuesPastFailures ==
    /\ [][\A p \in Procs :
             (MultiVals(p) /\ pc[p] = "vals_read" /\ pc'[p] # "vals_read")
             => IF loc[p].todo = <<>>
                THEN /\ pc'[p] = "done"
                     /\ rc'[p] # 0 <=>
                           \E cmd \in ValsTargets(p) :
                               UpdateFails(cmd, op[p].args)
                     /\ \A cmd \in ValsTargets(p) :
                           ~UpdateFails(cmd, op[p].args)
                           => HoldsArgs(cmdStore[cmd], op[p].args)
                ELSE /\ ~UpdateFails(Head(loc[p].todo), op[p].args)
                     /\ pc'[p] = "vals_write"]_vars
    /\ [][\A p \in Procs :
             (MultiVals(p) /\ pc[p] = "vals_read" /\ pc'[p] = "vals_read"
              /\ loc'[p] # loc[p])
             => /\ UpdateFails(Head(loc[p].todo), op[p].args)
                /\ cmdStore' = cmdStore
                /\ loc'[p].todo = Tail(loc[p].todo)]_vars
    /\ [][\A p \in Procs :
             (MultiVals(p) /\ ValsWrote(p))
             => /\ HoldsArgs(cmdStore'[Head(loc[p].todo)], op[p].args)
                /\ \A n \in Names \ {Head(loc[p].todo)} :
                      cmdStore'[n] = cmdStore[n]
                /\ loc'[p].todo = Tail(loc[p].todo)]_vars

\* a seq vals with p=2 over B and A, where there is no command B and A is
\* "w {p=1}", has returned 1 after it wrote A with p = 2
C27_Witness ==
    \E p \in Procs :
        /\ MultiVals(p) /\ pc[p] = "done"
        /\ op[p].oper = "seq_vals"
        /\ op[p].args = << <<"p", "=", "2">> >>
        /\ ~cmdStore[NameB].present
        /\ cmdStore[NameA].cmdline = <<"w", " ", "{", "p", "=", "2", "}">>
        /\ cmdStore[NameA].args = (<<"p">> :> Some(<<"2">>))
        /\ rc[p] = 1

(* -------------------------------- C28 ---------------------------------- *)

\* batch operations over several names, some of which do not exist: command
\* B and sequence B are missing
BatchInvocations ==
    {Oper("cmd_del", NoName, l, f) :
        l \in {<<NameA>>, <<NameB>>, <<NameB, NameA>>}, f \in BOOLEAN}
    \cup {Oper("seq_del", NoName, l, FALSE) :
            l \in {<<NameG>>, <<NameB>>, <<NameB, NameG>>}}
    \cup {RunOper("seq_vals", n, <<>>, FALSE, args) :
            n \in {NameB, NameG},
            args \in {<<>>, << <<"p", "=", "2">> >>, << <<"+", "t">> >>}}

StartBatch(p) == StartOf(p, BatchInvocations, MaxProcs)

NextBatch ==
    \E p \in Procs :
        \/ StartBatch(p)
        \/ LockPass(p)
        \/ CmdDelList(p) \/ CmdDelScan(p) \/ CmdDelDelete(p)
        \/ SeqDelDelete(p)
        \/ SeqRead(p) \/ SeqRelease(p)
        \/ ValsRead(p) \/ ValsWrite(p)
        \/ Exit(p)

\* the store holds command A and the sequence of B and A
InitBatch ==
    InitWith([cmd |-> [n \in Names |->
                        IF n = NameA
                        THEN CmdDoc(<<"w", " ", "{", "p", "=", "1", "}">>)
                        ELSE AbsentCmd],
              seq |-> [n \in Names |->
                        IF n = NameG THEN SeqDoc(<<NameB, NameA>>)
                        ELSE AbsentSeq]])

SpecBatch == InitBatch /\ [][NextBatch]_vars

\* the process has returned from a batch operation
BatchReturned(p) ==
    /\ st[p] = "run" /\ pc[p] = "done"
    /\ op[p].oper \in {"cmd_del", "seq_del", "seq_vals"}

\* C28: in a batch operation (cmd del, seq del, vals over a sequence) a target
\* that does not exist is reported and the remaining targets are still
\* processed, and the exit status is nonzero whenever a target was not found
C28_MissingTargetFailsBatch ==
    /\ [](\A p \in Procs :
             (BatchReturned(p) /\ out[p].missing # {}) => rc[p] # 0)
    /\ [][\A p \in Procs :
             out'[p].missing # out[p].missing
             => /\ pc'[p] = pc[p]
                /\ loc'[p].todo = Tail(loc[p].todo)]_vars

\* C28 for vals over a sequence, and the report and the continuation for all
\* three operations
C28_HoldsForSeqVals ==
    /\ [](\A p \in Procs :
             (BatchReturned(p) /\ op[p].oper = "seq_vals"
              /\ out[p].missing # {}) => rc[p] # 0)
    /\ [][\A p \in Procs :
             out'[p].missing # out[p].missing
             => /\ pc'[p] = pc[p]
                /\ loc'[p].todo = Tail(loc[p].todo)]_vars

(* ------------------- import and the schema version --------------------- *)

\* import files written by this client and by one whose export schema version
\* is one higher: one command entry and at most one sequence entry
SchemaImportFiles ==
    { [schema_version |-> v,
       commands |-> <<[name |-> n, cmdline |-> cmdline]>>,
       sequences |-> sequences] :
        v \in {export_schema_ver, export_schema_ver + 1},
        n \in {NameA, NameG},
        cmdline \in {<<"v">>, <<"w">>},
        sequences \in {<<>>, <<[name |-> NameB, commands |-> <<NameA>>]>>,
                       <<[name |-> NameG, commands |-> <<NameA>>]>>} }

ImportInvocations == {Oper("import", NoName, <<>>, f) : f \in BOOLEAN}

StartImport(p) == StartOf(p, ImportInvocations, MaxProcs)

NextImport ==
    \E p \in Procs :
        \/ StartImport(p)
        \/ LockPass(p)
        \/ ImportList(p) \/ ImportOpenOf(p, SchemaImportFiles)
        \/ ImportCmdChk(p) \/ ImportCmdDefine(p)
        \/ ImportSeqChk(p) \/ ImportSeqDefine(p)
        \/ Exit(p)

SpecImport == Init /\ [][NextImport]_vars

\* the process has loaded an import document whose schema version is greater
\* than the export schema version of this client
LoadedNewerSchema(p) ==
    /\ op[p].oper = "import"
    /\ loc[p].ischema > export_schema_ver

\* C29: an import that has loaded a document whose schema_version is greater
\* than this client's export schema version goes on to no define call, no
\* step of it changes a command or a sequence, and it does not return 0
C29_NewerSchemaRefused ==
    /\ [](\A p \in Procs :
            LoadedNewerSchema(p) =>
                /\ pc[p] \notin {"import_cmddef", "import_seqdef"}
                /\ rc[p] # 0)
    /\ [][\A p \in Procs :
            (LoadedNewerSchema(p) /\ loc'[p] # loc[p])
                => UNCHANGED storeVars]_vars

\* C29: what the code does with such a document: with overwrite it replaces
\* the command the document names
C29_NewerSchemaImported ==
    \E p \in Procs :
        /\ LoadedNewerSchema(p)
        /\ op[p].flag
        /\ rc[p] = 0
        /\ cmdStore[NameA] = CmdDoc(<<"w">>)

(* ------------------------- the waiting notice -------------------------- *)

\* this step is a pass of p's lock_internal loop, not the first of the call,
\* that found conflicting locks and printed the notice
FailedRetry(p) ==
    /\ Requesting(p)
    /\ ~first_try[p]
    /\ st'[p] = "run"
    /\ want'[p] = want[p]
    /\ waiting'[p] # waiting[p]

\* C30: during one blocked lock_internal call the "waiting" notice is printed
\* exactly once: the first retry that finds conflicting locks prints it, and
\* no later retry of that call prints it again
C30_WaitingNoticePrintedOnce ==
    /\ [](\A p \in Procs : Requesting(p) => waiting[p] <= 1)
    /\ [][\A p \in Procs :
            (/\ Requesting(p)
             /\ waiting'[p] # waiting[p]
             /\ waiting'[p] # 0)
            => (~first_try[p] /\ waiting[p] = 0)]_vars

\* the part of C30 that holds: no notice on the first try, and each notice is
\* one more for a retry that found conflicting locks
C30_NoticeOnlyOnRetries ==
    [][\A p \in Procs :
          waiting'[p] > waiting[p]
              => (FailedRetry(p) /\ waiting'[p] = waiting[p] + 1)]_vars

(* --------------------------- define and read --------------------------- *)

\* item_io.read_item: the stored document of the item
read_item(store, name) == store[name]

\* this step is p's define call of an interactive edit, which passes
\* overwrite=True, and the call returned 0
EditDefined(p, item_type) ==
    /\ Live(p)
    /\ op[p].oper = (IF item_type = "cmd" THEN "cmd_edit" ELSE "seq_edit")
    /\ pc[p] = (IF item_type = "cmd" THEN "cedit_input" ELSE "sdef_define")
    /\ pc'[p] = "done"
    /\ rc'[p] = 0

\* C31: a define with overwrite allowed that returns 0 leaves the item
\* existing, and read_item then returns exactly the document defined: for a
\* command the commandline given and what process_cmdline made of it, for a
\* sequence the command list given.  Stated of the define functions on every
\* store reached, and of the define calls the edit handlers make
C31_DefineThenRead ==
    /\ [](\A n \in Names :
            /\ \A cmdline \in Cmdlines :
                  \A r \in {define(cmdStore, n, cmdline, TRUE)} :
                      r.status = 0 =>
                          /\ exists(r.store, n)
                          /\ read_item(r.store, n).cmdline = cmdline
                          /\ read_item(r.store, n) = CmdDoc(cmdline)
            /\ \A cmds \in CmdLists :
                  \A r \in {seq_define(seqStore, n, cmds, FALSE, TRUE)} :
                      r.status = 0 =>
                          /\ exists(r.store, n)
                          /\ read_item(r.store, n).commands = cmds)
    /\ [][\A p \in Procs :
            /\ EditDefined(p, "cmd") =>
                  /\ exists(cmdStore', op[p].name)
                  /\ read_item(cmdStore', op[p].name)
                        = CmdDoc(loc'[p].defined.cmdline)
            /\ EditDefined(p, "seq") =>
                  /\ exists(seqStore', op[p].name)
                  /\ read_item(seqStore', op[p].name).commands = loc[p].cmds
       ]_vars

\* cmd edit has replaced the commandline of the stored command A, and seq
\* edit the command list of the stored sequence B
C31_Witness ==
    \E p, q \in Procs :
        /\ op[p].oper = "cmd_edit" /\ op[p].name = NameA /\ rc[p] = 0
        /\ loc[p].defined.cmdline = <<"w">>
        /\ read_item(cmdStore, NameA) = CmdDoc(<<"w">>)
        /\ op[q].oper = "seq_edit" /\ op[q].name = NameB /\ rc[q] = 0
        /\ loc[q].cmds = <<NameA>>
        /\ read_item(seqStore, NameB) = SeqDoc(<<NameA>>)

(* ----------------------- order of the item locks ----------------------- *)

\* the lists of at most two names, duplicates included
NameLists == UNION {[1..n -> Names] : n \in 0..2}

\* the names of the list and how many times each occurs
Occurrences(l) == [n \in Names |-> Cardinality({i \in 1..Len(l) : l[i] = n})]

\* the prefixes of the requests from the i-th on are in ascending order of
\* name (str comparison) for the item type
Ascending(reqs, item_type) ==
    \A i, j \in 1..Len(reqs) :
        (/\ i < j
         /\ \E n \in Names : reqs[i].prefix = ItemPrefix(item_type, n)
         /\ \E n \in Names : reqs[j].prefix = ItemPrefix(item_type, n))
        => \E a, b \in Names :
              /\ reqs[i].prefix = ItemPrefix(item_type, a)
              /\ reqs[j].prefix = ItemPrefix(item_type, b)
              /\ ~StrLess(b, a)

\* C32: multi_item_lock makes one item_lock call per entry of its list, in
\* ascending order of item name whatever the order of the list; the calls a
\* process still has to make are in that order, and each pass of
\* lock_internal grants the first of them only
C32_MultiItemLockSorted ==
    /\ [](/\ \A l \in NameLists : \A lock_type \in {"READ", "WRITE"} :
               \A reqs \in {multi_item_lock("cmd", l, lock_type)} :
                  /\ Len(reqs) = Len(l)
                  /\ Ascending(reqs, "cmd")
                  /\ \A n \in Names :
                        Occurrences(l)[n] =
                            Cardinality({i \in 1..Len(reqs) :
                                reqs[i] = ItemReq("cmd", n, lock_type)})
          /\ \A p \in Procs :
                Live(p) => Ascending(want[p], "cmd") /\ Ascending(want[p], "seq"))
    /\ [][\A p \in Procs :
            (Requesting(p) /\ st'[p] = "run" /\ want'[p] # want[p]
                /\ pc'[p] = pc[p])
            => /\ want'[p] = Tail(want[p])
               /\ files' = files \cup {LockPath(Head(want[p]).prefix,
                                                Head(want[p]).type, p)}]_vars

\* cmd del of the list B, A holds A's WRITE marker and has B's still to
\* request
C32_Witness ==
    \E p \in Procs :
        /\ Live(p)
        /\ op[p].oper = "cmd_del"
        /\ op[p].list = <<NameB, NameA>>
        /\ Holds(p, ItemPrefix("cmd", NameA), "WRITE")
        /\ want[p] = <<ItemReq("cmd", NameB, "WRITE")>>

(* ----------------------- the placeholder of an edit -------------------- *)

\* p's interactive edit of a name that was absent has written its
\* placeholder item and has not concluded
EditingNew(p) == Live(p) /\ cleanup[p] # NoName

\* no step of another process changes the command or the sequence of the
\* name p's edit wrote a placeholder for
PlaceholderKept(p) ==
    \A item_type \in {"cmd", "seq"} :
        StoreOf(item_type)[cleanup[p]] # StoreOf(item_type)'[cleanup[p]]
            => Acted(p)

\* C33: from the step in which an interactive edit of a new name writes its
\* placeholder item until that edit concludes, no other process creates,
\* overwrites or deletes a command or a sequence of that name
C33_PlaceholderHoldsName ==
    [][\A p \in Procs : EditingNew(p) => PlaceholderKept(p)]_vars

\* the part of C33 that holds: the names without glob metacharacters
C33_HoldsForPlainNames ==
    [][\A p \in Procs :
          (EditingNew(p) /\ cleanup[p] \in {NameA, NameB})
              => PlaceholderKept(p)]_vars

(* ----------------- a seq run and the items it has locked --------------- *)

\* a seq run of B against the operations that write commands and sequences:
\* set, del and import of the member commands, and del of the sequence
GuardImportFiles ==
    { [schema_version |-> export_schema_ver,
       commands |-> <<[name |-> NameA, cmdline |-> <<"w">>]>>,
       sequences |-> <<>>] }

GuardInvocations ==
    {RunOper("seq_run", NameB, <<>>, f, <<>>) : f \in BOOLEAN}
    \cup {Oper("cmd_set", n, <<>>, FALSE) : n \in {NameA, NameG}}
    \cup {Oper("cmd_del", NoName, <<n>>, f) :
            n \in {NameA, NameG}, f \in BOOLEAN}
    \cup {Oper("seq_del", NoName, <<NameB>>, FALSE)}
    \cup {Oper("import", NoName, <<>>, f) : f \in BOOLEAN}

StartGuard(p) == StartOf(p, GuardInvocations, MaxProcs)

NextGuard ==
    \E p \in Procs :
        \/ StartGuard(p)
        \/ LockPass(p)
        \/ CmdSetExists(p) \/ CmdSetSeqChk(p) \/ CmdSetDefine(p)
        \/ CmdDelList(p) \/ CmdDelScan(p) \/ CmdDelDelete(p)
        \/ SeqDelDelete(p)
        \/ SeqRead(p) \/ SeqRelease(p) \/ SeqRunCmd(p)
        \/ ImportList(p) \/ ImportOpenOf(p, GuardImportFiles)
        \/ ImportCmdChk(p) \/ ImportCmdDefine(p) \/ ImportSeqChk(p)
        \/ Exit(p)

\* the store holds the sequence B, of "[A]" or of "[A]" and A, and each of
\* these two commands or not (a sequence may list a command that does not
\* exist)
InitGuard ==
    \E stored \in SUBSET {NameA, NameG} :
        \E cmd_list \in {<<NameG>>, <<NameG, NameA>>} :
            InitWith([cmd |-> [n \in Names |->
                                IF n \in stored THEN CmdDoc(<<"v">>)
                                ELSE AbsentCmd],
                      seq |-> [n \in Names |->
                                IF n = NameB THEN SeqDoc(cmd_list)
                                ELSE AbsentSeq]])

SpecGuard == InitGuard /\ [][NextGuard]_vars

\* p's seq run has been granted the READ locks of its members and has not
\* ended
HoldsMemberLocks(p) ==
    /\ SeqRunning(p)
    /\ pc[p] \in {"seq_release", "srun_cmd"}
    /\ want[p] = <<>>

\* this step leaves the stored sequence of p's run as it was, and the stored
\* document of each given member: one that exists, and one the run has yet
\* to execute
RunItemsKept(p, members) ==
    /\ seqStore'[op[p].name] = seqStore[op[p].name]
    /\ \A cmd \in members :
          (exists(cmdStore, cmd) \/ cmd \in Range(loc[p].todo))
              => cmdStore'[cmd] = cmdStore[cmd]

\* C34: from the grant of the member READ locks of a seq run until the run
\* ends, no step changes or deletes the stored sequence or a stored member
\* command, and none changes what a member yet to be executed is defined as
C34_RunLocksKeepItems ==
    [][\A p \in Procs :
          HoldsMemberLocks(p) => RunItemsKept(p, Range(loc[p].cmds))]_vars

\* the part of C34 that holds: the sequence, and the members that exist when
\* the locks are granted and whose names have no glob metacharacters
C34_HoldsForPlainStoredMembers ==
    [][\A p \in Procs :
          HoldsMemberLocks(p) =>
              /\ seqStore'[op[p].name] = seqStore[op[p].name]
              /\ \A cmd \in Range(loc[p].cmds) \cap {NameA, NameB} :
                    exists(cmdStore, cmd) => cmdStore'[cmd] = cmdStore[cmd]
      ]_vars

(* --------------- sequences and the commands they list ------------------ *)

\* set, edit and del of commands and of sequences, none with --force: cmd del
\* refuses commands that sequences use, and seq set and seq edit refuse
\* commands that do not exist
PlainInvocations ==
    {Oper(o, n, <<>>, FALSE) :
        o \in {"cmd_set", "cmd_edit"}, n \in {NameA, NameB}}
    \cup {Oper("cmd_del", NoName, l, FALSE) :
            l \in {<<NameA>>, <<NameB, NameA>>}}
    \cup {Oper(o, NameG, <<>>, FALSE) : o \in {"seq_set", "seq_edit"}}
    \cup {Oper("seq_del", NoName, <<NameG>>, FALSE)}

StartPlain(p) == StartOf(p, PlainInvocations, MaxProcs)

NextPlain ==
    \E p \in Procs :
        \/ StartPlain(p)
        \/ LockPass(p)
        \/ CmdSetExists(p) \/ CmdSetSeqChk(p) \/ CmdSetDefine(p)
        \/ CmdEditRead(p) \/ CmdEditSeqChk(p) \/ CmdEditTemp(p)
        \/ CmdEditRelease(p) \/ CmdEditDefine(p) \/ CmdEditCleanup(p)
        \/ CmdDelList(p) \/ CmdDelScan(p) \/ CmdDelDelete(p)
        \/ SeqSetExists(p) \/ SeqSetCmdChk(p)
        \/ SeqEditRead(p) \/ SeqEditCmdChk(p) \/ SeqEditTemp(p)
        \/ SeqEditRelease(p)
        \/ SeqDefineArgsOf(p, {FALSE}) \/ SeqDefineUndef(p) \/ SeqDefine(p)
        \/ SeqEditCleanup(p) \/ SeqDelDelete(p)
        \/ Exit(p) \/ Abort(p)

\* the store holds command A and no sequence
SpecPlain == InitDel /\ [][NextPlain]_vars

\* no operation is in progress
Quiescent == \A p \in Procs : st[p] # "run"

\* C35: whenever no operation is in progress, every command name listed in a
\* stored sequence is the name of a stored command
C35_SequencesListStoredCommands ==
    Quiescent =>
        \A seq \in Names :
            exists(seqStore, seq) =>
                \A cmd \in Range(seqStore[seq].commands) :
                    exists(cmdStore, cmd)

(* ------------------- markers of other items ---------------------------- *)

\* item names for the lock paths: the names of the store, and two names that
\* begin with the name A followed by "."
LockNames ==
    Names \cup {<<"A", ".", "B">>,
                <<"A", ".", "w", "r", "i", "t", "e", ".", "B">>}

\* a marker a process holds on item b is among the conflicting locks of a
\* lock_internal call for item a
Blocks(item_type, b, a, lock_type) ==
    \E q \in Procs : \E held \in {"READ", "WRITE"} :
        FnMatch(ConflictPattern(lock_type, ItemPrefix(item_type, a)),
                LockPath(ItemPrefix(item_type, b), held, q))

\* the item prefixes of the store's names
ItemPrefixes == {ItemPrefix(i[1], i[2]) : i \in Items}

\* C36: a lock request on an item is never blocked by markers held on a
\* different item of the same kind: no marker on an item b is a conflicting
\* lock of a READ or WRITE request on another item a (the names a with "a."
\* a prefix of b included), and a process whose item request waits for
\* another process waits for one that holds a marker on that same item
C36_OtherItemsNeverBlock ==
    /\ \A item_type \in {"cmd", "seq"} : \A a, b \in LockNames :
          a # b => \A lock_type \in {"READ", "WRITE"} :
                      ~Blocks(item_type, b, a, lock_type)
    /\ \A p, q \in Procs :
          (p # q /\ WaitsFor(p, q) /\ Head(want[p]).prefix \in ItemPrefixes)
              => HoldsAny(q, Head(want[p]).prefix)

\* the part of C36 that holds: names without glob metacharacters of which
\* none followed by "." begins another
C36_HoldsForPlainNames ==
    /\ \A item_type \in {"cmd", "seq"} : \A a, b \in {NameA, NameB} :
          a # b => \A lock_type \in {"READ", "WRITE"} :
                      ~Blocks(item_type, b, a, lock_type)
    /\ \A p, q \in Procs :
          (/\ p # q /\ WaitsFor(p, q)
           /\ \E item_type \in {"cmd", "seq"}, n \in {NameA, NameB} :
                 Head(want[p]).prefix = ItemPrefix(item_type, n))
              => HoldsAny(q, Head(want[p]).prefix)

\* a request on the item "[A]" waits for a process that holds markers on the
\* item A only
C36_BlockedByOtherItem ==
    \E p, q \in Procs :
        /\ p # q /\ WaitsFor(p, q)
        /\ Head(want[p]).prefix = ItemPrefix("cmd", NameG)
        /\ ~HoldsAny(q, ItemPrefix("cmd", NameG))
        /\ HoldsAny(q, ItemPrefix("cmd", NameA))

(* ------------------- the exit of an interactive edit ------------------- *)

\* Interpreter shutdown in its two parts.  atexit runs the registered
\* functions last registered first, and the process is alive until the last
\* of them has returned: first the cleanup function of the edit, registered
\* after every remove_lock of the handler's lock calls
ExitCleanup(p) ==
    /\ \/ At(p, "done")
       \/ At(p, "cedit_input")
       \/ At(p, "sdef_args") /\ op[p].oper = "seq_edit"
    /\ cmdStore' = RunCleanup(cmdStore, p, AbsentCmd, op[p].oper = "cmd_edit")
    /\ seqStore' = RunCleanup(seqStore, p, AbsentSeq, op[p].oper = "seq_edit")
    /\ cleanup' = [cleanup EXCEPT ![p] = NoName]
    /\ Goto(p, "atexit_locks")
    /\ UNCHANGED <<files, st, op, want, registered, loc, rc, out, tryVars>>

\* then remove_lock for every registered lock path
ExitLocks(p) ==
    /\ At(p, "atexit_locks")
    /\ Shutdown(p)

\* edits of the new names B and "[A]" against deletions of these names
ExitInvocations ==
    {Oper(o, n, <<>>, FALSE) :
        o \in {"cmd_edit", "seq_edit"}, n \in {NameB, NameG}}
    \cup {Oper(o, NoName, <<n>>, TRUE) :
            o \in {"cmd_del", "seq_del"}, n \in {NameB, NameG}}

StartExit(p) == StartOf(p, ExitInvocations, MaxProcs)

NextExit ==
    \E p \in Procs :
        \/ StartExit(p)
        \/ LockPass(p)
        \/ CmdEditRead(p) \/ CmdEditSeqChk(p) \/ CmdEditTemp(p)
        \/ CmdEditRelease(p) \/ CmdEditDefine(p) \/ CmdEditCleanup(p)
        \/ SeqEditRead(p) \/ SeqEditCmdChk(p) \/ SeqEditTemp(p)
        \/ SeqEditRelease(p)
        \/ SeqDefineArgs(p) \/ SeqDefineUndef(p) \/ SeqDefine(p)
        \/ SeqEditCleanup(p)
        \/ CmdDelDelete(p) \/ SeqDelDelete(p)
        \/ ExitCleanup(p) \/ ExitLocks(p)

\* the store holds command A and no sequence
SpecExit == InitDel /\ [][NextExit]_vars

\* the kind of item p's edit is about
EditKind(p) == IF op[p].oper = "cmd_edit" THEN "cmd" ELSE "seq"

\* the placeholder item p's edit wrote is the stored item
PlaceholderStored(p) ==
    /\ Live(p)
    /\ cleanup[p] # NoName
    /\ exists(StoreOf(EditKind(p)), cleanup[p])

\* this step removes p's WRITE marker on the item of its edit
MarkerRemoved(p) ==
    /\ Live(p)
    /\ op[p].oper \in {"cmd_edit", "seq_edit"}
    /\ Holds(p, ItemPrefix(EditKind(p), op[p].name), "WRITE")
    /\ LockPath(ItemPrefix(EditKind(p), op[p].name), "WRITE", p) \notin files'

\* a step that removes the WRITE marker of an edit is taken when the
\* placeholder of that edit is no longer stored
PlaceholderDeletedFirst ==
    [][\A p \in Procs : MarkerRemoved(p) => ~PlaceholderStored(p)]_vars

\* this step begins the exit of p before its edit of a new name has
\* completed: the cleanup function is still registered
ExitsEarly(p) ==
    /\ Live(p)
    /\ cleanup[p] # NoName
    /\ pc[p] # "atexit_locks"
    /\ pc'[p] = "atexit_locks"

\* no other process holds a marker on the item of p's edit
NobodyElseHolds(p) ==
    \A q \in Procs \ {p} : ~HoldsAny(q, ItemPrefix(EditKind(p), op[p].name))

\* C37: when a process that wrote a placeholder item for an interactive edit
\* exits before the edit completes, the placeholder is deleted before the
\* process's WRITE marker on the item is removed, and no other process has
\* been granted a lock on that item by then, nor is granted one before the
\* marker is removed
C37_PlaceholderOutlivedByMarker ==
    /\ PlaceholderDeletedFirst
    /\ [][\A p \in Procs :
            /\ ExitsEarly(p) => NobodyElseHolds(p)
            /\ (At(p, "atexit_locks") /\ op[p].oper \in {"cmd_edit", "seq_edit"}
                   /\ NobodyElseHolds(p))
                  => (Live(p)' => NobodyElseHolds(p)')]_vars

\* the part of C37 that holds: the order of the two atexit functions, and the
\* exclusion for names without glob metacharacters
C37_HoldsForPlainNames ==
    /\ PlaceholderDeletedFirst
    /\ [][\A p \in Procs :
            op[p].name = NameB =>
                /\ ExitsEarly(p) => NobodyElseHolds(p)
                /\ (At(p, "atexit_locks")
                       /\ op[p].oper \in {"cmd_edit", "seq_edit"}
                       /\ NobodyElseHolds(p))
                      => (Live(p)' => NobodyElseHolds(p)')]_vars

\* an abandoned edit of the new name B has deleted its placeholder and still
\* holds its WRITE marker on B
C37_ExitingAfterCleanup ==
    \E p \in Procs :
        /\ At(p, "atexit_locks")
        /\ op[p].oper = "cmd_edit" /\ op[p].name = NameB
        /\ rc[p] = -1
        /\ ~exists(cmdStore, NameB)
        /\ Holds(p, ItemPrefix("cmd", NameB), "WRITE")

(* ------------------- chaintool-env and values already set --------------- *)

\* runs with two assigning commands: command "A" is "chaintool-env X=5",
\* command "[A]" is "chaintool-env X=6", command "B" uses X, and sequence
\* "[A]" runs the two in either order before B
OtherEnvCmdline ==
    VtoolEnv \o <<" ", "X", "=", "6">>

EnvSeqs == {<<NameA, NameG, NameB>>, <<NameG, NameA, NameB>>,
            <<NameB, NameA, NameG, NameB>>}

InitEnv ==
    \E cmdline \in UseCmdlines, commands \in EnvSeqs :
        InitWith([cmd |-> [n \in Names |->
                            IF n = NameA THEN CmdDoc(EnvCmdline)
                            ELSE IF n = NameG THEN CmdDoc(OtherEnvCmdline)
                            ELSE CmdDoc(cmdline)],
                  seq |-> [n \in Names |->
                            IF n = NameG THEN SeqDoc(commands)
                            ELSE AbsentSeq]])

SpecEnv == InitEnv /\ [][NextRun]_vars

\* the positions of the NAME=value arguments for name in an args list
Supplied(args, name) ==
    {k \in 1..Len(args) :
        /\ env_op_parse(args[k]).some
        /\ env_op_parse(args[k]).v[1] = name}

\* the value the args list gives name: that of its last NAME=value argument
ValueIn(args, name) ==
    LET last == CHOOSE k \in Supplied(args, name) :
                    \A j \in Supplied(args, name) : j <= k
    IN  env_op_parse(args[last]).v[2]

\* the arguments of the chaintool-env call that was the i-th run call of p
\* (none when that call executed no chaintool-env)
EnvArgs(p, i) ==
    LET e == loc[p].ran[i]
        tokens == Words(e.cmdline)
    IN  IF e.kind = "ran" /\ e.vtool /\ tokens # <<>> /\ tokens[1] = VtoolEnv
        THEN Tail(tokens)
        ELSE <<>>

\* C38: in a seq run, a chaintool-env NAME=other executed while the run
\* argument list already holds a NAME=value argument (from the user or from
\* an earlier chaintool-env) leaves every argument of the list in place and
\* appends none for NAME, and every member run after it that uses NAME
\* resolves it to the value the list held before
C38_EnvKeepsEarlierValue ==
    \A p \in Procs : SeqRunning(p) =>
        LET ran == loc[p].ran
        IN  \A i \in 1..Len(ran) :
            \A k \in 1..Len(EnvArgs(p, i)) :
                LET env_op == env_op_parse(EnvArgs(p, i)[k])
                    before == ran[i].args
                    after == ArgsAfter(p, i)
                IN  (env_op.some /\ ran[i].status = 0
                     /\ Supplied(before, env_op.v[1]) # {})
                    => /\ Len(after) >= Len(before)
                       /\ SubSeq(after, 1, Len(before)) = before
                       /\ Supplied(after, env_op.v[1])
                             = Supplied(before, env_op.v[1])
                       /\ \A j \in (i + 1)..Len(ran) :
                             (ran[j].kind = "ran"
                              /\ env_op.v[1] \in DOMAIN ran[j].values)
                                => ran[j].values[env_op.v[1]]
                                     = Some(ValueIn(before, env_op.v[1]))

\* a run without args of A, [A], B: A assigned X=5, "chaintool-env X=6" then
\* ran with X already set, and B executed "w 5"
C38_Witness ==
    \E p \in Procs :
        /\ SeqRunning(p)
        /\ op[p].args = <<>>
        /\ Len(loc[p].ran) = 3
        /\ Assigned(p, 1) = {<<"X", "=", "5">>}
        /\ loc[p].ran[2].cmd = NameG
        /\ EnvArgs(p, 2) = << <<"X", "=", "6">> >>
        /\ loc[p].ran[2].status = 0
        /\ loc[p].ran[3].cmdline = <<"w", " ", "5">>

\* a run with the argument X=7: "chaintool-env X=5" ran and B executed "w 7"
C38_UserValueKept ==
    \E p \in Procs :
        /\ SeqRunning(p)
        /\ op[p].args = << <<"X", "=", "7">> >>
        /\ \E i \in 1..Len(loc[p].ran) :
              /\ EnvArgs(p, i) # <<>>
              /\ loc[p].ran[i].status = 0
              /\ \E j \in (i + 1)..Len(loc[p].ran) :
                    loc[p].ran[j].cmdline = <<"w", " ", "7">>

(* ------------------------------ init_modules --------------------------- *)

\* start-ups of chaintool processes of several installed packages
InitOper(package) == [oper |-> "init", package |-> package]

\* init_modules' locals
InitLocals(this_schema_ver, last_schema_ver) ==
    [this_schema_ver |-> this_schema_ver, last_schema_ver |-> last_schema_ver]

InInit(p, l) == st[p] = "run" /\ op[p].oper = "init" /\ pc[p] = l

\* a chaintool process of some package starts (a process that has ended is
\* followed by a new one); at most MaxProcs of them run at a time
StartInit(p) ==
    /\ p <= MaxProcs
    /\ st[p] # "run"
    /\ \E package \in Packages : op' = [op EXCEPT ![p] = InitOper(package)]
    /\ st' = [st EXCEPT ![p] = "run"]
    /\ pc' = [pc EXCEPT ![p] = "init_meta"]
    /\ rc' = [rc EXCEPT ![p] = -1]
    /\ loc' = [loc EXCEPT ![p] = NoLocals]
    /\ inited' = [inited EXCEPT ![p] = {}]
    /\ UNCHANGED <<files, storeVars, want, registered, cleanup, out, lockVars,
                   markers, meta>>

\* with locks.META_LOCK: entered when no other process is inside
MetaAcquire(p) ==
    /\ InInit(p, "init_meta")
    /\ meta = 0
    /\ meta' = p
    /\ Goto(p, "init_read")
    /\ UNCHANGED <<files, storeVars, st, op, want, registered, cleanup, loc,
                   rc, out, lockVars, markers, inited>>

\* this_schema_ver, last_schema_ver and the comparison: sys.exit(1) when the
\* stored version is larger (an exception when there is no this_schema_ver)
InitCheck(p) ==
    /\ InInit(p, "init_read")
    /\ \E r \in {schema_ver_for_package_ver(op[p].package.version,
                                            op[p].package.changes)} :
       \E last_schema_ver \in {get_last_schema_version(markers)} :
          IF r.raised \/ ~r.v.some
          THEN /\ rc' = [rc EXCEPT ![p] = 1]
               /\ Goto(p, "init_exit")
               /\ UNCHANGED loc
          ELSE /\ SetLoc(p, InitLocals(r.v.v, last_schema_ver))
               /\ IF last_schema_ver > r.v.v
                  THEN /\ rc' = [rc EXCEPT ![p] = 1]
                       /\ Goto(p, "init_exit")
                  ELSE /\ Goto(p, "init_stores")
                       /\ UNCHANGED rc
    /\ UNCHANGED <<files, storeVars, st, op, want, registered, cleanup, out,
                   lockVars, initVars>>

\* item_io.init, shortcuts.init and completions.init
InitStores(p) ==
    /\ InInit(p, "init_stores")
    /\ inited' = [inited EXCEPT ![p] = InitModules]
    /\ Goto(p, "init_markers")
    /\ UNCHANGED <<files, storeVars, st, op, want, registered, cleanup, loc,
                   rc, out, lockVars, markers, meta>>

\* set_last_schema_version, set_last_chaintool_version and
\* set_last_python_version
InitSetMarkers(p) ==
    /\ InInit(p, "init_markers")
    /\ markers' = SetMarkers(op[p].package, loc[p].this_schema_ver)
    /\ Goto(p, "init_exit")
    /\ UNCHANGED <<files, storeVars, st, op, want, registered, cleanup, loc,
                   rc, out, lockVars, meta, inited>>

\* the end of the with block, also when sys.exit(1) leaves it
MetaRelease(p) ==
    /\ InInit(p, "init_exit")
    /\ meta' = 0
    /\ Goto(p, "init_done")
    /\ UNCHANGED <<files, storeVars, st, op, want, registered, cleanup, loc,
                   rc, out, lockVars, markers, inited>>

\* the process ends: at once after sys.exit(1), else after its operation
InitExit(p) ==
    /\ InInit(p, "init_done")
    /\ st' = [st EXCEPT ![p] = "exited"]
    /\ UNCHANGED <<files, storeVars, op, pc, want, registered, cleanup, loc,
                   rc, out, lockVars, initVars>>

\* the process is killed during init_modules; the system drops its file lock
InitKill(p) ==
    /\ st[p] = "run" /\ op[p].oper = "init"
    /\ st' = [st EXCEPT ![p] = "killed"]
    /\ meta' = IF meta = p THEN 0 ELSE meta
    /\ UNCHANGED <<files, storeVars, op, pc, want, registered, cleanup, loc,
                   rc, out, lockVars, markers, inited>>

NextInit ==
    \E p \in Procs :
        \/ StartInit(p)
        \/ MetaAcquire(p)
        \/ InitCheck(p)
        \/ InitStores(p)
        \/ InitSetMarkers(p)
        \/ MetaRelease(p)
        \/ InitExit(p)
        \/ InitKill(p)

\* chaintool has never run, or init_modules of this package has
InitInit ==
    \E marker_files \in {NoMarkers, InitializedMarkers} :
        InitAs(InitStore, marker_files)

SpecInit == InitInit /\ [][NextInit]_vars

\* the number in the schema version marker file, 0 without the file
StoredSchema(marker_files) ==
    IF marker_files.schema.some THEN ParseInt(marker_files.schema.v) ELSE 0

\* the schema version of a package: the number of its schema changes
PackageSchema(package) == Len(package.changes)

\* init_modules of p has ended in its error exit
Refused(p) ==
    /\ op[p].oper = "init"
    /\ st[p] \in {"run", "exited"}
    /\ rc[p] = 1

\* C39: over any start-ups of processes the stored schema version never
\* decreases; a process whose package schema version is lower than the stored
\* one ends init_modules with exit status 1 while it holds the meta-lock,
\* having initialized no store module; and the version markers are only
\* written by a process that holds the meta-lock and was not refused
C39_SchemaNeverDecreases ==
    /\ [][StoredSchema(markers') >= StoredSchema(markers)]_vars
    /\ [][\A p \in Procs :
            (/\ InInit(p, "init_read")
             /\ pc'[p] # "init_read" /\ st'[p] = "run"
             /\ StoredSchema(markers) > PackageSchema(op[p].package))
                => /\ rc'[p] = 1
                   /\ meta = p /\ meta' = p
                   /\ inited'[p] = {}
                   /\ markers' = markers]_vars
    /\ [](\A p \in Procs : Refused(p) => inited[p] = {})
    /\ [][markers' # markers =>
            \E p \in Procs : InInit(p, "init_markers") /\ meta = p
                             /\ rc[p] # 1]_vars

\* a process of this package (schema 1) found the stored schema version 2
\* and has ended init_modules with status 1, still inside the meta-lock
C39_Witness ==
    \E p \in Procs :
        /\ Refused(p)
        /\ InInit(p, "init_exit")
        /\ meta = p
        /\ op[p].package = ThisPackage
        /\ StoredSchema(markers) = 2

(* ----------------------- schema_ver_for_package_ver -------------------- *)

V01 == <<"0", ".", "1">>
V020 == <<"0", ".", "2", ".", "0">>
V03 == <<"0", ".", "3">>
V20 == <<"2", ".", "0">>

\* package versions at which a schema changed, ascending
ChangeVersions == <<V020, V030, V040, V10>>

\* the non-empty ascending lists of those versions
ChangeLists ==
    {[k \in 1..Cardinality(picked) |->
         ChangeVersions[CHOOSE i \in picked :
                           Cardinality({j \in picked : j <= i}) = k]] :
        picked \in SUBSET (1..Len(ChangeVersions)) \ {{}}}

\* query package versions: below, between, at and above the changes, with
\* and without a dev segment
QueryVersions == {V01, V020, V03, V030dev0, V035, V040, V10dev1, V10, V20}

SchemaOper(query, changes) ==
    [oper |-> "schema_ver", query |-> query, changes |-> changes]

\* one call schema_ver_for_package_ver(query, changes) is about to be made
InitSchema ==
    \E query \in QueryVersions, changes \in ChangeLists :
        /\ files = {}
        /\ cmdStore = InitStore.cmd
        /\ seqStore = InitStore.seq
        /\ st = [p \in Procs |-> IF p = 1 THEN "run" ELSE "idle"]
        /\ op = [p \in Procs |-> IF p = 1 THEN SchemaOper(query, changes)
                                 ELSE NoOp]
        /\ pc = [p \in Procs |-> IF p = 1 THEN "schema_ver" ELSE "done"]
        /\ want = [p \in Procs |-> <<>>]
        /\ first_try = [p \in Procs |-> TRUE]
        /\ waiting = [p \in Procs |-> 0]
        /\ registered = [p \in Procs |-> {}]
        /\ cleanup = [p \in Procs |-> NoName]
        /\ loc = [p \in Procs |-> NoLocals]
        /\ rc = [p \in Procs |-> -1]
        /\ out = [p \in Procs |-> NoOutput]
        /\ made = [p \in Procs |-> FALSE]
        /\ markers = InitializedMarkers
        /\ meta = 0
        /\ inited = [p \in Procs |-> InitModules]

\* the call returns (or raises)
SchemaVer(p) ==
    /\ st[p] = "run" /\ op[p].oper = "schema_ver" /\ pc[p] = "schema_ver"
    /\ SetLoc(p, schema_ver_for_package_ver(op[p].query, op[p].changes))
    /\ Goto(p, "schema_done")
    /\ UNCHANGED <<files, storeVars, st, op, want, registered, cleanup, rc,
                   out, tryVars>>

NextSchema == \E p \in Procs : SchemaVer(p)

SpecSchema == InitSchema /\ [][NextSchema]_vars

SchemaReturned(p) ==
    st[p] = "run" /\ op[p].oper = "schema_ver" /\ pc[p] = "schema_done"

\* the number of list entries that are less than or equal to the base
\* version of the query
EntriesUpTo(query, changes) ==
    LET base == Version(base_version(Version(query)))
    IN  Cardinality({i \in 1..Len(changes) :
                        ~VersionLess(base, Version(changes[i]))})

\* C40: for an ascending list of schema-change package versions and a query
\* package version, schema_ver_for_package_ver returns the number of list
\* entries that are less than or equal to the query's base version
C40_SchemaVerCountsEntries ==
    \A p \in Procs :
        SchemaReturned(p) =>
            /\ ~loc[p].raised
            /\ loc[p].v = Some(EntriesUpTo(op[p].query, op[p].changes))

\* the same for the queries that are not below the last but one entry
C40_HoldsFromLastButOneEntry ==
    \A p \in Procs :
        (/\ SchemaReturned(p)
         /\ EntriesUpTo(op[p].query, op[p].changes) >= Len(op[p].changes) - 1)
            => /\ ~loc[p].raised
               /\ loc[p].v = Some(EntriesUpTo(op[p].query, op[p].changes))

\* for every other query the call returns the length of the list less one
C40_ReturnsLengthLessOne ==
    \A p \in Procs :
        (/\ SchemaReturned(p)
         /\ EntriesUpTo(op[p].query, op[p].changes) < Len(op[p].changes))
            => loc[p].v = Some(Len(op[p].changes) - 1)

====
